---- MODULE Spec2Model ----
(***************************************************************************)
(* Verification model of taskmate-cli:                                     *)
(*   - ConversationContext / LLMManager   (src/src/llm/base.py, manager.py)*)
(*   - ContextManager                     (src/src/markdown/context.py)    *)
(* Message contents are strings; metadata of a Message is not modelled     *)
(* (no operation of the manager reads it).                                 *)
(***************************************************************************)
EXTENDS Integers, Sequences, FiniteSets, TLC

\* ------------------------------------------------------------------ bounds
\* largest max_history set_max_history is called with
MaxHistory == 3
\* number of fresh message contents handed to add_message / generate
MaxInputs == 3
\* number of chunks a backend stream yields at most
MaxChunks == 2
\* number of messages handed to add_message in a long conversation (more
\* than the max_history of a new manager)
MaxLong == 52

\* largest max_context_items a ContextManager is constructed with
MaxItems == 2
\* datetime.now() returns 0..MaxTime
MaxTime == 2
\* largest access_count get_context_for_ai counts up to
MaxAccess == 1

\* number of commands and free-text lines the REPL is given
MaxCommands == 3
\* number of rows the sessions table grows to
MaxSessions == 3
\* largest updated_at a write of SessionService gives a row
MaxWrites == 4

\* ------------------------------------------------------------ value spaces
None == "None"

\* ConversationContext.max_history when the constructor is not given one
DefaultMaxHistory == 50

SYSTEM == "system"
USER == "user"
ASSISTANT == "assistant"
MessageRole == {SYSTEM, USER, ASSISTANT}

CLAUDE == "claude"
GEMINI == "gemini"
LLMProvider == {CLAUDE, GEMINI}

\* the n-th content a caller passes in (all distinct, so that the position of
\* every message in the history is recognisable)
Letters == <<"a", "b", "c", "d", "e", "f", "g", "h">>
Content(n) == IF n <= Len(Letters) THEN Letters[n] ELSE "m" \o ToString(n)

\* arguments of set_system_prompt
Prompts == {"", "p", "q"}
\* texts a backend returns, chunks a backend stream yields
Responses == {"r"}
\* the k-th chunk of a backend stream (all distinct, so that the order of the
\* concatenation is recognisable)
ChunkLetters == <<"x", "y", "z", "w">>
Chunk(k) == ChunkLetters[k]
\* exception kinds of a backend client (base.py:51-74)
LLMErrorKinds == {"LLMError", "RateLimitError"}

Message(role, content) == [role |-> role, content |-> content]

Min(a, b) == IF a < b THEN a ELSE b
Max(a, b) == IF a > b THEN a ELSE b

\* Python's s[start:] (0-based start, negative start counts from the end)
PySliceFrom(s, start) ==
    LET n == Len(s)
        st == IF start < 0 THEN Max(n + start, 0) ELSE Min(start, n)
    IN SubSeq(s, st + 1, n)

IsSystem(m) == m.role = SYSTEM
NotSystem(m) == m.role # SYSTEM

\* ------------------------------------------------------------------- state
VARIABLES
    messages,          \* ConversationContext.messages
    max_history,       \* ConversationContext.max_history
    system_prompt,     \* ConversationContext.system_prompt (None until set)
    llms,              \* LLMManager._llms: the provider ids that have a client
    default_provider,  \* LLMManager._default_provider
    calls,             \* generate / generate_stream coroutines suspended in the backend
    nInputs,           \* how many fresh contents the callers have used
    pinClean,          \* since the last set_system_prompt only USER/ASSISTANT messages were added
    convLast,          \* what the call that completed last handed to its caller
    max_context_items, \* ContextManager.max_context_items
    context_items,     \* ContextManager.context_items, in the dict's insertion order
    active_files,      \* ContextManager.active_files
    clock,             \* the wall clock: no reading of datetime.now() is below it
    clockOK,           \* the wall clock has never been set back
    storeLast,         \* what the ContextManager call that completed last returned
    session_active,    \* TodoistREPL: run() is still in its loop
    command_count,     \* TodoistREPL.command_count
    current_session_id, \* CommandProcessor.current_session_id
    service_current_session_id, \* SessionService._current_session_id
    db_sessions,       \* the sessions table, in the order of creation
    replLast           \* what the handle_input that completed last did

convVars == <<messages, max_history, system_prompt, llms, default_provider,
              calls, nInputs, pinClean, convLast>>

storeVars == <<max_context_items, context_items, active_files, clock, clockOK, storeLast>>

replVars == <<session_active, command_count, current_session_id,
              service_current_session_id, db_sessions, replLast>>

vars == <<convVars, storeVars, replVars>>

\* what the call that completed last handed to its caller: the call's name,
\* its add_to_history argument (FALSE for the calls that have none) and the
\* exception it raised ("none": it returned)
Last(op, add_to_history, raised) ==
    [op |-> op, add_to_history |-> add_to_history, raised |-> raised]

\* the operations that return nothing and raise nothing hand nothing over
NoOutcome == Last(None, FALSE, "none")

\* ----------------------------------------------- ConversationContext (pure)
\* add_message: append, then truncate when the list is longer than max_history
ctx_add_message(msgs, maxh, message) ==
    LET appended == Append(msgs, message) IN
    IF Len(appended) > maxh
    THEN LET system_messages == SelectSeq(appended, IsSystem)
             other_messages == SelectSeq(appended, NotSystem)
             recent_messages ==
                 PySliceFrom(other_messages, -(maxh - Len(system_messages)))
         IN system_messages \o recent_messages
    ELSE appended

ctx_get_messages(msgs) == msgs

ctx_clear(prompt) ==
    IF prompt # None /\ prompt # ""
    THEN <<Message(SYSTEM, prompt)>>
    ELSE <<>>

\* (variant: the old SYSTEM messages are not removed)
ctx_set_system_prompt_keeping(msgs, prompt) ==
    IF prompt # ""
    THEN <<Message(SYSTEM, prompt)>> \o msgs
    ELSE msgs

ctx_set_system_prompt(msgs, prompt) ==
    LET kept == SelectSeq(msgs, NotSystem) IN
    IF prompt # ""
    THEN <<Message(SYSTEM, prompt)>> \o kept
    ELSE kept

\* ------------------------------------------------------ LLMManager actions
ConvInit ==
    /\ messages = <<>>
    /\ max_history = DefaultMaxHistory
    /\ system_prompt = None
    /\ llms = {}
    /\ default_provider = None
    /\ calls = {}
    /\ nInputs = 0
    /\ pinClean = FALSE
    /\ convLast = NoOutcome

set_system_prompt(prompt) ==
    /\ system_prompt' = prompt
    /\ messages' = ctx_set_system_prompt(messages, prompt)
    /\ pinClean' = TRUE
    /\ convLast' = NoOutcome
    /\ UNCHANGED <<max_history, llms, default_provider, calls, nInputs>>
    /\ UNCHANGED <<storeVars, replVars>>

\* add_message, for a caller that hands over at most cap contents
add_message_within(role, cap) ==
    /\ nInputs < cap
    /\ LET content == Content(nInputs + 1) IN
        /\ messages' = ctx_add_message(messages, max_history, Message(role, content))
        /\ convLast' = NoOutcome
    /\ nInputs' = nInputs + 1
    /\ pinClean' = (pinClean /\ role # SYSTEM)
    /\ UNCHANGED <<max_history, system_prompt, llms, default_provider, calls>>
    /\ UNCHANGED <<storeVars, replVars>>

add_message(role) == add_message_within(role, MaxInputs)

clear_conversation ==
    /\ messages' = ctx_clear(system_prompt)
    /\ convLast' = NoOutcome
    /\ UNCHANGED <<max_history, system_prompt, llms, default_provider, calls,
                   nInputs, pinClean>>
    /\ UNCHANGED <<storeVars, replVars>>

\* (variant: the history is cut to the new bound at once)
set_max_history_truncating(n) ==
    /\ max_history' = n
    /\ messages' = IF Len(messages) > n
                   THEN SubSeq(messages, Len(messages) - n + 1, Len(messages))
                   ELSE messages
    /\ convLast' = NoOutcome
    /\ UNCHANGED <<system_prompt, llms, default_provider, calls, nInputs, pinClean>>
    /\ UNCHANGED <<storeVars, replVars>>

set_max_history(n) ==
    /\ max_history' = n
    /\ convLast' = NoOutcome
    /\ UNCHANGED <<messages, system_prompt, llms, default_provider, calls,
                   nInputs, pinClean>>
    /\ UNCHANGED <<storeVars, replVars>>

\* import_conversation's loop: add_message for each dictionary in turn; an
\* unknown role makes MessageRole(...) raise ValueError and ends the loop
RECURSIVE import_loop(_, _, _)
import_loop(msgs, maxh, data) ==
    IF data = <<>> THEN [messages |-> msgs, raised |-> "none"]
    ELSE IF Head(data).role \notin MessageRole
    THEN [messages |-> msgs, raised |-> "ValueError"]
    ELSE LET added == ctx_add_message(msgs, maxh, Head(data))
             rest == Tail(data)
         IN \* (the test makes TLC evaluate both before the next round, so that
            \* a long list does not nest the evaluations)
            IF Len(added) + Len(rest) >= 0
            THEN import_loop(added, maxh, rest)
            ELSE [messages |-> added, raised |-> "none"]

\* (variant: the SYSTEM messages are not exported)
export_conversation_without_system(msgs) ==
    LET kept == SelectSeq(msgs, NotSystem) IN
    [i \in 1..Len(kept) |-> [role |-> kept[i].role, content |-> kept[i].content]]

\* export_conversation: one dictionary per message, role as its string value
export_conversation(msgs) ==
    [i \in 1..Len(msgs) |-> [role |-> msgs[i].role, content |-> msgs[i].content]]

\* the lists import_conversation is given: dictionaries with any role string
ImportRoles == MessageRole \cup {"tool"}
ImportDicts == {[role |-> SYSTEM, content |-> "s"], [role |-> USER, content |-> "i"],
                [role |-> ASSISTANT, content |-> "j"], [role |-> "tool", content |-> "k"]}
ImportLists == {<<>>} \cup {<<d>> : d \in ImportDicts}
                  \cup {<<d, e>> : d \in ImportDicts, e \in ImportDicts}

import_conversation(data) ==
    /\ LET r == import_loop(<<>>, max_history, data) IN
        /\ messages' = r.messages
        /\ convLast' = Last("import_conversation", FALSE, r.raised)
    /\ pinClean' = FALSE
    /\ UNCHANGED <<max_history, system_prompt, llms, default_provider, calls,
                   nInputs>>
    /\ UNCHANGED <<storeVars, replVars>>

\* ---------------------------------------------------------------- providers
\* (variant: the default is taken before the client is created, so a failing
\* registration leaves it behind)
add_provider_default_first(provider, created) ==
    /\ llms' = IF created THEN llms \cup {provider} ELSE llms
    /\ default_provider' = IF default_provider = None THEN provider ELSE default_provider
    /\ convLast' = IF created THEN NoOutcome ELSE Last("add_provider", FALSE, "ValueError")
    /\ UNCHANGED <<messages, max_history, system_prompt, calls, nInputs, pinClean>>
    /\ UNCHANGED <<storeVars, replVars>>

\* (variant: every registration takes the default)
add_provider_overwriting(provider, created) ==
    /\ llms' = IF created THEN llms \cup {provider} ELSE llms
    /\ default_provider' = IF created THEN provider ELSE default_provider
    /\ convLast' = IF created THEN NoOutcome ELSE Last("add_provider", FALSE, "ValueError")
    /\ UNCHANGED <<messages, max_history, system_prompt, calls, nInputs, pinClean>>
    /\ UNCHANGED <<storeVars, replVars>>

\* add_provider: LLMFactory.create_llm comes first and may raise (created is
\* whether it returned a client); then the client is stored under its provider
\* id (a client already stored under that id is replaced) and the first
\* provider becomes the default
add_provider(provider, created) ==
    /\ IF ~created
       THEN /\ convLast' = Last("add_provider", FALSE, "ValueError")
            /\ UNCHANGED <<llms, default_provider>>
       ELSE /\ llms' = llms \cup {provider}
            /\ default_provider' = IF default_provider = None THEN provider
                                   ELSE default_provider
            /\ convLast' = NoOutcome
    /\ UNCHANGED <<messages, max_history, system_prompt, calls, nInputs, pinClean>>
    /\ UNCHANGED <<storeVars, replVars>>

\* (variant: the default is set without looking the provider up)
set_default_provider_unchecked(provider) ==
    /\ convLast' = Last("set_default_provider", FALSE, "none")
    /\ default_provider' = provider
    /\ UNCHANGED <<messages, max_history, system_prompt, llms, calls, nInputs, pinClean>>
    /\ UNCHANGED <<storeVars, replVars>>

\* set_default_provider: raises ValueError for a provider that is not registered
set_default_provider(provider) ==
    /\ IF provider \notin llms
       THEN /\ convLast' = Last("set_default_provider", FALSE, "ValueError")
            /\ UNCHANGED default_provider
       ELSE /\ convLast' = Last("set_default_provider", FALSE, "none")
            /\ default_provider' = provider
    /\ UNCHANGED <<messages, max_history, system_prompt, llms, calls, nInputs, pinClean>>
    /\ UNCHANGED <<storeVars, replVars>>

\* (variant: an id that is not registered falls back to the default)
get_provider_falling_back(provider) ==
    LET target_provider == IF provider # None /\ provider \in llms THEN provider
                           ELSE default_provider IN
    IF target_provider = None
    THEN [raised |-> "ValueError", provider |-> None]
    ELSE IF target_provider \notin llms
    THEN [raised |-> "ValueError", provider |-> None]
    ELSE [raised |-> "none", provider |-> target_provider]

\* get_provider: the provider id it resolves to, or the exception it raises
get_provider(provider) ==
    LET target_provider == IF provider # None THEN provider ELSE default_provider IN
    IF target_provider = None
    THEN [raised |-> "ValueError", provider |-> None]
    ELSE IF target_provider \notin llms
    THEN [raised |-> "ValueError", provider |-> None]
    ELSE [raised |-> "none", provider |-> target_provider]

\* ------------------------------------------------- generate, generate_stream
\* A coroutine runs from its call to its await of the backend in one step, and
\* from the backend's answer to its return in another; between the two it is
\* an element of calls.

\* the part of generate / generate_stream before the backend is awaited
\* (manager.py:126-140, 165-180)
begin_call(kind, provider, add_to_history) ==
    /\ nInputs < MaxInputs
    /\ nInputs' = nInputs + 1
    /\ LET content == Content(nInputs + 1)
           r == get_provider(provider)
       IN IF r.raised # "none"
          THEN /\ convLast' = Last(kind, add_to_history, r.raised)
               /\ UNCHANGED <<messages, calls>>
          ELSE LET stored == IF add_to_history
                             THEN ctx_add_message(messages, max_history, Message(USER, content))
                             ELSE messages
                   request == IF add_to_history
                              THEN ctx_get_messages(stored)
                              ELSE ctx_get_messages(stored) \o <<Message(USER, content)>>
               IN /\ messages' = stored
                  /\ calls' = calls \cup
                       {[kind |-> kind, content |-> content,
                         add_to_history |-> add_to_history,
                         requested |-> provider, provider |-> r.provider,
                         request |-> request, full_response |-> "",
                         yielded |-> <<>>]}
                  /\ UNCHANGED convLast
    /\ UNCHANGED <<max_history, system_prompt, llms, default_provider, pinClean>>
    /\ UNCHANGED <<storeVars, replVars>>

generate_call(provider, add_to_history) == begin_call("generate", provider, add_to_history)

\* (variant: the response is stored whatever add_to_history says)
generate_return_storing(c, response) ==
    /\ c \in calls /\ c.kind = "generate"
    /\ calls' = calls \ {c}
    /\ messages' = ctx_add_message(messages, max_history, Message(ASSISTANT, response))
    /\ convLast' = Last(c.kind, c.add_to_history, "none")
    /\ UNCHANGED <<max_history, system_prompt, llms, default_provider, nInputs, pinClean>>
    /\ UNCHANGED <<storeVars, replVars>>

\* (variant: the reply is put right after the USER turn of its own call)
generate_return_paired(c, response) ==
    /\ c \in calls /\ c.kind = "generate"
    /\ calls' = calls \ {c}
    /\ messages' =
          IF c.add_to_history
          THEN IF \E i \in 1..Len(messages) : messages[i] = Message(USER, c.content)
               THEN LET i == CHOOSE i \in 1..Len(messages) :
                                messages[i] = Message(USER, c.content)
                    IN SubSeq(messages, 1, i) \o <<Message(ASSISTANT, response)>>
                          \o SubSeq(messages, i + 1, Len(messages))
               ELSE ctx_add_message(messages, max_history, Message(ASSISTANT, response))
          ELSE messages
    /\ convLast' = Last(c.kind, c.add_to_history, "none")
    /\ UNCHANGED <<max_history, system_prompt, llms, default_provider, nInputs, pinClean>>
    /\ UNCHANGED <<storeVars, replVars>>

\* llm.generate returned: manager.py:143-146
generate_return(c, response) ==
    /\ c \in calls /\ c.kind = "generate"
    /\ calls' = calls \ {c}
    /\ messages' = IF c.add_to_history
                   THEN ctx_add_message(messages, max_history, Message(ASSISTANT, response))
                   ELSE messages
    /\ convLast' = Last(c.kind, c.add_to_history, "none")
    /\ UNCHANGED <<max_history, system_prompt, llms, default_provider, nInputs, pinClean>>
    /\ UNCHANGED <<storeVars, replVars>>

\* (variant: the USER message of the failed call is taken back)
generate_raise_rollback(c, error) ==
    /\ c \in calls /\ c.kind = "generate"
    /\ calls' = calls \ {c}
    /\ messages' = IF c.add_to_history /\ messages # <<>>
                   THEN SubSeq(messages, 1, Len(messages) - 1)
                   ELSE messages
    /\ convLast' = Last(c.kind, c.add_to_history, error)
    /\ UNCHANGED <<max_history, system_prompt, llms, default_provider, nInputs, pinClean>>
    /\ UNCHANGED <<storeVars, replVars>>

\* llm.generate raised: nothing in generate catches it
generate_raise(c, error) ==
    /\ c \in calls /\ c.kind = "generate"
    /\ calls' = calls \ {c}
    /\ convLast' = Last(c.kind, c.add_to_history, error)
    /\ UNCHANGED <<messages, max_history, system_prompt, llms, default_provider,
                   nInputs, pinClean>>
    /\ UNCHANGED <<storeVars, replVars>>

\* ------------------------------------------------- the backend clients
\* what the HTTP exchange of a client's generate comes to: the request fails
\* in transport (timeout, request error), or a response arrives with a status
\* code, an error message that names the model or does not, and a body that
\* has the fields of a reply or lacks them
StatusCodes == {200, 400, 401, 403, 404, 429, 500}
HttpOutcomes ==
    [transport : {"TimeoutException", "RequestError"}, status_code : {200},
     names_model : {FALSE}, body_ok : {TRUE}]
    \cup [transport : {"ok"}, status_code : StatusCodes,
          names_model : BOOLEAN, body_ok : BOOLEAN]

\* the subclasses of LLMError and LLMError itself
IsLLMError(e) ==
    e \in {"LLMError", "RateLimitError", "AuthenticationError", "ModelNotFoundError"}

\* ClaudeLLM._handle_response_errors: the exception it raises, "none" if it
\* returns
claude_handle_response_errors(status_code, names_model) ==
    IF status_code = 200 THEN "none"
    ELSE IF status_code = 401 THEN "AuthenticationError"
    ELSE IF status_code = 429 THEN "RateLimitError"
    ELSE IF status_code = 404 /\ names_model THEN "ModelNotFoundError"
    ELSE "LLMError"

\* GeminiLLM._handle_response_errors
gemini_handle_response_errors(status_code, names_model) ==
    IF status_code = 200 THEN "none"
    ELSE IF status_code = 401 \/ status_code = 403 THEN "AuthenticationError"
    ELSE IF status_code = 429 THEN "RateLimitError"
    ELSE IF status_code = 404 THEN "ModelNotFoundError"
    ELSE "LLMError"

handle_response_errors(provider, status_code, names_model) ==
    IF provider = CLAUDE
    THEN claude_handle_response_errors(status_code, names_model)
    ELSE gemini_handle_response_errors(status_code, names_model)

\* the except clauses of a client's generate: a timeout and a request error
\* become LLMError, an LLMError of any kind is raised again as it is, any
\* other exception becomes LLMError
client_except(e) ==
    IF e = "TimeoutException" \/ e = "RequestError" THEN "LLMError"
    ELSE IF IsLLMError(e) THEN e
    ELSE "LLMError"

\* ClaudeLLM.generate / GeminiLLM.generate for one exchange: the exception the
\* caller sees, "none" if a response is returned.  A 200 whose body lacks the
\* fields read from it raises KeyError in the try block (Gemini raises
\* LLMError itself when there are no candidates).
client_generate(provider, o) ==
    LET in_try ==
           IF o.transport # "ok" THEN o.transport
           ELSE IF handle_response_errors(provider, o.status_code, o.names_model) # "none"
                THEN handle_response_errors(provider, o.status_code, o.names_model)
           ELSE IF ~o.body_ok THEN "KeyError"
           ELSE "none"
    IN IF in_try = "none" THEN "none" ELSE client_except(in_try)

\* the backend client of a suspended generate finishes its exchange:
\* LLMManager.generate resumes with the response or with the exception, which
\* nothing in LLMManager.generate catches
generate_respond(c, o, response) ==
    IF client_generate(c.provider, o) = "none"
    THEN generate_return(c, response)
    ELSE generate_raise(c, client_generate(c.provider, o))

\* chat: awaits generate(content, provider=provider), add_to_history left at
\* its default, and hands over the content of the response; what generate
\* raises is raised by chat
chat_call(provider) == generate_call(provider, TRUE)

\* generate_stream up to its first await of the backend stream (the body of
\* the generator starts when the consumer asks for the first chunk)
stream_call(provider, add_to_history) == begin_call("generate_stream", provider, add_to_history)

\* (variant: full_response holds the last chunk only)
stream_chunk_last_only(c) ==
    /\ c \in calls /\ c.kind = "generate_stream"
    /\ Len(c.yielded) < MaxChunks
    /\ LET chunk == Chunk(Len(c.yielded) + 1) IN
       calls' = (calls \ {c}) \cup
                  {[c EXCEPT !.full_response = chunk,
                             !.yielded = Append(c.yielded, chunk)]}
    /\ UNCHANGED <<messages, max_history, system_prompt, llms, default_provider,
                   nInputs, pinClean, convLast>>
    /\ UNCHANGED <<storeVars, replVars>>

\* the consumer asks for a chunk and the backend stream yields one:
\* manager.py:180-182, suspended at the yield
stream_chunk(c) ==
    /\ c \in calls /\ c.kind = "generate_stream"
    /\ Len(c.yielded) < MaxChunks
    /\ LET chunk == Chunk(Len(c.yielded) + 1) IN
       calls' = (calls \ {c}) \cup
                  {[c EXCEPT !.full_response = c.full_response \o chunk,
                             !.yielded = Append(c.yielded, chunk)]}
    /\ UNCHANGED <<messages, max_history, system_prompt, llms, default_provider,
                   nInputs, pinClean, convLast>>
    /\ UNCHANGED <<storeVars, replVars>>

\* the consumer stops iterating: GeneratorExit is thrown at the yield where
\* the generator is suspended
stream_close(c) ==
    /\ c \in calls /\ c.kind = "generate_stream"
    /\ c.yielded # <<>>
    /\ calls' = calls \ {c}
    /\ convLast' = Last(c.kind, c.add_to_history, "GeneratorExit")
    /\ UNCHANGED <<messages, max_history, system_prompt, llms, default_provider,
                   nInputs, pinClean>>
    /\ UNCHANGED <<storeVars, replVars>>

\* the consumer asks for a chunk and the backend stream is exhausted:
\* manager.py:185-186
stream_end(c) ==
    /\ c \in calls /\ c.kind = "generate_stream"
    /\ calls' = calls \ {c}
    /\ messages' = IF c.add_to_history
                   THEN ctx_add_message(messages, max_history,
                                        Message(ASSISTANT, c.full_response))
                   ELSE messages
    /\ convLast' = Last(c.kind, c.add_to_history, "none")
    /\ UNCHANGED <<max_history, system_prompt, llms, default_provider, nInputs, pinClean>>
    /\ UNCHANGED <<storeVars, replVars>>

\* the consumer asks for a chunk and the backend stream raises
stream_raise(c, error) ==
    /\ c \in calls /\ c.kind = "generate_stream"
    /\ calls' = calls \ {c}
    /\ convLast' = Last(c.kind, c.add_to_history, error)
    /\ UNCHANGED <<messages, max_history, system_prompt, llms, default_provider,
                   nInputs, pinClean>>
    /\ UNCHANGED <<storeVars, replVars>>

\* ----------------------------------------------------------- ContextManager
\* paths handed to add_file / remove_file: three markdown files and a file
\* that is no markdown file
MdPaths == {"x.md", "y.md", "z.md"}
Paths == MdPaths \cup {"n.txt"}
Times == 0..MaxTime

\* ContextManager.__init__: max_context_items when the constructor is not given one
DefaultMaxContextItems == 10

\* title, content, summary, key_points and tags of an item are read from the
\* file, and added_at is written once: no operation of the store reads them
\* to decide anything
ContextItem(file_path, last_accessed, access_count) ==
    [file_path |-> file_path,
     last_accessed |-> last_accessed, access_count |-> access_count]

Keys(items) == {items[i].file_path : i \in 1..Len(items)}

\* what a call returned: result is TRUE / FALSE for add_file and remove_file;
\* digest lists the items of get_context_for_ai's text in their order;
\* evicted lists the keys _manage_context_size deleted, in their order; added
\* is the key a successful add_file stored its item under and added_at the
\* added_at of that item (written when the item is built and read by none of
\* the operations here, so the stored items do not carry it); stats is the
\* dictionary get_context_stats returned
StoreOutcome(op, result, digest, evicted, added, added_at, stats) ==
    [op |-> op, result |-> result, digest |-> digest, evicted |-> evicted,
     added |-> added, added_at |-> added_at, stats |-> stats]

NoStoreOutcome == StoreOutcome(None, FALSE, <<>>, <<>>, None, None, None)

StoreInit(k) ==
    /\ max_context_items = k
    /\ context_items = <<>>
    /\ active_files = {}
    /\ clock = 0
    /\ clockOK = TRUE
    /\ storeLast = NoStoreOutcome

\* parse_file raises for a file that is no markdown file, and for a markdown
\* file that does not exist when it is read (parser.py:62-68)
parse_file_ok(file_path, exists) == exists /\ file_path \in MdPaths

\* self.context_items[file_key] = context_item: a stored key keeps its place
\* in the dict, a new key goes to the end
dict_set(items, item) ==
    IF item.file_path \in Keys(items)
    THEN [i \in 1..Len(items) |->
             IF items[i].file_path = item.file_path THEN item ELSE items[i]]
    ELSE Append(items, item)

\* sorted(..., key=last_accessed): stable, ascending
RECURSIVE sorted_by_last_accessed(_)
sorted_by_last_accessed(items) ==
    IF items = <<>> THEN <<>>
    ELSE LET n == Len(items)
             x == items[n]
             front == sorted_by_last_accessed(SubSeq(items, 1, n - 1))
             \* x goes behind every element that is not greater than x
             k == Cardinality({i \in 1..Len(front) :
                                  front[i].last_accessed <= x.last_accessed})
         IN SubSeq(front, 1, k) \o <<x>> \o SubSeq(front, k + 1, Len(front))

\* (variant: the ascending sort turned round, which turns the ties round too)
sorted_by_last_accessed_turned(items) ==
    LET up == sorted_by_last_accessed(items)
    IN [i \in 1..Len(up) |-> up[Len(up) + 1 - i]]

\* sorted(..., key=last_accessed, reverse=True): stable, descending
RECURSIVE sorted_by_last_accessed_reverse(_)
sorted_by_last_accessed_reverse(items) ==
    IF items = <<>> THEN <<>>
    ELSE LET n == Len(items)
             x == items[n]
             front == sorted_by_last_accessed_reverse(SubSeq(items, 1, n - 1))
             k == Cardinality({i \in 1..Len(front) :
                                  front[i].last_accessed >= x.last_accessed})
         IN SubSeq(front, 1, k) \o <<x>> \o SubSeq(front, k + 1, Len(front))

\* the items of a dict whose keys are not in gone, in the dict's order
RECURSIVE dict_without(_, _)
dict_without(items, gone) ==
    IF items = <<>> THEN <<>>
    ELSE IF Head(items).file_path \in gone
    THEN dict_without(Tail(items), gone)
    ELSE <<Head(items)>> \o dict_without(Tail(items), gone)

\* (eviction in the order of insertion instead of the order of last access)
items_to_evict_oldest_inserted(items, maxItems) ==
    IF Len(items) <= maxItems THEN <<>>
    ELSE [i \in 1..(Len(items) - maxItems) |-> items[i].file_path]

\* _manage_context_size: the keys it deletes, in the order it deletes them
items_to_evict(items, maxItems) ==
    IF Len(items) <= maxItems THEN <<>>
    ELSE LET sorted_items == sorted_by_last_accessed(items)
             items_to_remove == Len(items) - maxItems
         IN [i \in 1..items_to_remove |-> sorted_items[i].file_path]

SeqRange(q) == {q[i] : i \in 1..Len(q)}

\* t is a reading of a clock that stands at c: the clock stands still or has
\* gone on by a tick.  (The code only compares times, so a behaviour with
\* longer steps has the same comparisons as one with steps of a tick.)
Reading(c, t) == c <= t /\ t <= c + 1

\* (variant: the path is registered as active before the file is parsed)
add_file_registering_first(file_path, exists, t) ==
    /\ Reading(clock, t)
    /\ IF ~parse_file_ok(file_path, exists)
       THEN /\ t = clock
            /\ storeLast' = StoreOutcome("add_file", FALSE, <<>>, <<>>, None, None, None)
            /\ active_files' = active_files \cup {file_path}
            /\ UNCHANGED <<max_context_items, context_items, clock>>
       ELSE \E ta \in Times :
            /\ Reading(clock, ta) /\ ta <= t
            /\ LET context_item == ContextItem(file_path, t, 0)
                   inserted == dict_set(context_items, context_item)
                   evicted == items_to_evict(inserted, max_context_items)
               IN /\ context_items' = dict_without(inserted, SeqRange(evicted))
                  /\ active_files' = (active_files \cup {file_path}) \ SeqRange(evicted)
                  /\ clock' = t
                  /\ storeLast' = StoreOutcome("add_file", TRUE, <<>>, evicted, file_path, ta, None)
                  /\ UNCHANGED max_context_items
    /\ UNCHANGED clockOK
    /\ UNCHANGED <<convVars, replVars>>

\* (variant: a stored path keeps the item's access_count)
add_file_keeping(file_path, exists, t) ==
    /\ Reading(clock, t)
    /\ IF ~parse_file_ok(file_path, exists)
       THEN /\ t = clock
            /\ storeLast' = StoreOutcome("add_file", FALSE, <<>>, <<>>, None, None, None)
            /\ UNCHANGED <<max_context_items, context_items, active_files, clock>>
       ELSE \E ta \in Times :
            /\ Reading(clock, ta) /\ ta <= t
            /\ LET stored == {i \in 1..Len(context_items) :
                                context_items[i].file_path = file_path}
                   context_item ==
                       IF stored = {} THEN ContextItem(file_path, t, 0)
                       ELSE [context_items[CHOOSE i \in stored : TRUE]
                                EXCEPT !.last_accessed = t]
                   inserted == dict_set(context_items, context_item)
                   evicted == items_to_evict(inserted, max_context_items)
               IN /\ context_items' = dict_without(inserted, SeqRange(evicted))
                  /\ active_files' = (active_files \cup {file_path}) \ SeqRange(evicted)
                  /\ clock' = t
                  /\ storeLast' = StoreOutcome("add_file", TRUE, <<>>, evicted, file_path, ta, None)
                  /\ UNCHANGED max_context_items
    /\ UNCHANGED clockOK
    /\ UNCHANGED <<convVars, replVars>>

\* add_file.  exists: whether the file is there when parse_file reads it;
\* t: what datetime.now() returns for last_accessed.
\* parse_file raises before anything is stored, and the exception is
\* caught; otherwise datetime.now() is read for added_at (ta) and then for
\* last_accessed (t), the item is stored under its path and
\* _manage_context_size runs
add_file(file_path, exists, t) ==
    /\ Reading(clock, t)
    /\ IF ~parse_file_ok(file_path, exists)
       THEN /\ t = clock   \* the clock is not read
            /\ storeLast' = StoreOutcome("add_file", FALSE, <<>>, <<>>, None, None, None)
            /\ UNCHANGED <<max_context_items, context_items, active_files, clock>>
       ELSE \E ta \in Times :
            /\ Reading(clock, ta) /\ ta <= t
            /\ LET context_item == ContextItem(file_path, t, 0)
                   inserted == dict_set(context_items, context_item)
                   evicted == items_to_evict(inserted, max_context_items)
               IN /\ context_items' = dict_without(inserted, SeqRange(evicted))
                  /\ active_files' = (active_files \cup {file_path}) \ SeqRange(evicted)
                  /\ clock' = t
                  /\ storeLast' = StoreOutcome("add_file", TRUE, <<>>, evicted, file_path, ta, None)
                  /\ UNCHANGED max_context_items
    /\ UNCHANGED clockOK
    /\ UNCHANGED <<convVars, replVars>>

remove_file(file_path) ==
    /\ IF file_path \in Keys(context_items)
       THEN /\ context_items' = dict_without(context_items, {file_path})
            /\ active_files' = active_files \ {file_path}
            /\ storeLast' = StoreOutcome("remove_file", TRUE, <<>>, <<>>, None, None, None)
       ELSE /\ storeLast' = StoreOutcome("remove_file", FALSE, <<>>, <<>>, None, None, None)
            /\ UNCHANGED <<context_items, active_files>>
    /\ UNCHANGED <<max_context_items, clock, clockOK>>
    /\ UNCHANGED <<convVars, replVars>>

\* the successive readings ts of a clock that stands at c
Monotonic(c, ts) ==
    /\ ts # <<>> => Reading(c, ts[1])
    /\ \A i \in 1..(Len(ts) - 1) : Reading(ts[i], ts[i + 1])

\* the key points extract_key_points finds in a file (at most 10): none, a
\* few, and more than the digest lists
key_points(file_path) ==
    CASE file_path = "x.md" -> <<>>
      [] file_path = "y.md" -> <<"k1", "k2", "k3">>
      [] OTHER -> <<"k1", "k2", "k3", "k4", "k5", "k6", "k7">>

\* the number of key points the digest lists for an item
DigestKeyPoints == 5

\* Python's s[:stop] for stop >= 0
PySliceTo(s, stop) == SubSeq(s, 1, Min(stop, Len(s)))

\* what the digest says of an item: its file and the key points it lists
\* (title, summary and tags are copied from the item as they are)
digest_entry(item) ==
    [file |-> item.file_path,
     key_points |-> PySliceTo(key_points(item.file_path), DigestKeyPoints)]

\* (variant: the item read first is not counted)
get_context_for_ai_skipping(ts) ==
    /\ Len(ts) = Len(context_items)
    /\ Monotonic(clock, ts)
    /\ \A i \in 1..Len(context_items) : context_items[i].access_count < MaxAccess
    /\ context_items # <<>>
    /\ LET loop == sorted_by_last_accessed_reverse(context_items)
           at(key) == CHOOSE i \in 1..Len(loop) : loop[i].file_path = key
       IN /\ context_items' =
                [i \in 1..Len(context_items) |->
                    [context_items[i] EXCEPT
                        !.last_accessed = ts[at(context_items[i].file_path)],
                        !.access_count =
                            IF at(context_items[i].file_path) = 1 THEN @ ELSE @ + 1]]
          /\ clock' = ts[Len(ts)]
          /\ storeLast' = StoreOutcome("get_context_for_ai", TRUE,
                                      [i \in 1..Len(loop) |-> digest_entry(loop[i])],
                                      <<>>, None, None, None)
    /\ UNCHANGED <<max_context_items, active_files, clockOK>>
    /\ UNCHANGED <<convVars, replVars>>

\* the loop of get_context_for_ai over a store that is not empty: the items
\* as it leaves them and the files of its text in their order.  ts[i]: what
\* datetime.now() returns for the i-th item of the loop
context_for_ai(items, ts) ==
    LET loop == sorted_by_last_accessed_reverse(items)
        \* the place of a key in the loop
        at(key) == CHOOSE i \in 1..Len(loop) : loop[i].file_path = key
    IN [items |-> [i \in 1..Len(items) |->
                      [items[i] EXCEPT
                          !.last_accessed = ts[at(items[i].file_path)],
                          !.access_count = @ + 1]],
        digest |-> [i \in 1..Len(loop) |-> digest_entry(loop[i])]]

\* get_context_for_ai
get_context_for_ai(ts) ==
    /\ Len(ts) = Len(context_items)
    /\ Monotonic(clock, ts)
    /\ \A i \in 1..Len(context_items) : context_items[i].access_count < MaxAccess
    /\ IF context_items = <<>>
       THEN /\ storeLast' = StoreOutcome("get_context_for_ai", FALSE, <<>>, <<>>, None, None, None)
            /\ UNCHANGED <<context_items, clock>>
       ELSE /\ context_items' = context_for_ai(context_items, ts).items
            /\ clock' = ts[Len(ts)]
            /\ storeLast' = StoreOutcome("get_context_for_ai", TRUE,
                                         context_for_ai(context_items, ts).digest,
                                         <<>>, None, None, None)
    /\ UNCHANGED <<max_context_items, active_files, clockOK>>
    /\ UNCHANGED <<convVars, replVars>>

\* max(self.context_items.values(), key=lambda x: x.access_count): the first
\* of the items with the largest access_count, in the dict's order
most_accessed(items) ==
    items[CHOOSE i \in 1..Len(items) :
             /\ \A j \in 1..Len(items) : items[j].access_count <= items[i].access_count
             /\ \A j \in 1..(i - 1) : items[j].access_count < items[i].access_count]

\* the dictionary get_context_stats returns (total_words and total_sections
\* are read from the files)
context_stats(items) ==
    IF items = <<>>
    THEN [total_files |-> 0, most_accessed |-> None]
    ELSE [total_files |-> Len(items),
          most_accessed |-> [file |-> most_accessed(items).file_path,
                             count |-> most_accessed(items).access_count]]

get_context_stats ==
    /\ storeLast' = StoreOutcome("get_context_stats", TRUE, <<>>, <<>>, None, None, context_stats(context_items))
    /\ UNCHANGED <<max_context_items, context_items, active_files, clock, clockOK>>
    /\ UNCHANGED <<convVars, replVars>>

\* the environment sets the wall clock back (datetime.now() is the local
\* wall-clock time, not a monotonic clock)
clock_set_back(t) ==
    /\ t < clock
    /\ clock' = t
    /\ clockOK' = FALSE
    /\ UNCHANGED <<max_context_items, context_items, active_files, storeLast>>
    /\ UNCHANGED <<convVars, replVars>>

clear_context ==
    /\ context_items' = <<>>
    /\ active_files' = {}
    /\ storeLast' = NoStoreOutcome
    /\ UNCHANGED <<max_context_items, clock, clockOK>>
    /\ UNCHANGED <<convVars, replVars>>

\* export_context: max_context_items and the items under their keys
export_context(maxItems, items) ==
    [max_context_items |-> maxItems, context_items |-> items]

\* The dictionaries import_context is given: its argument is any Dict of the
\* persisted shape (it reads both keys with data.get and a default), with
\* times of the past.  Those export_context returns are among them.
ImportItems == {ContextItem("x.md", 0, 0), ContextItem("x.md", 1, 0), ContextItem("y.md", 0, 0)}
ImportedItems == {<<a, b>> \in ImportItems \X ImportItems : a.file_path # b.file_path}
ImportData == {export_context(k, items) : k \in {1, MaxItems}, items \in ImportedItems}

\* import_context.  missing: the files that no longer exist
import_context(data, missing) ==
    /\ missing \subseteq Keys(data.context_items)
    /\ \A i \in 1..Len(data.context_items) : data.context_items[i].last_accessed <= clock
    /\ max_context_items' = data.max_context_items
    /\ context_items' = dict_without(data.context_items, missing)
    /\ active_files' = Keys(context_items')
    /\ storeLast' = NoStoreOutcome
    /\ UNCHANGED <<clock, clockOK>>
    /\ UNCHANGED <<convVars, replVars>>

\* ------------------------------------------------------------------ strings
\* str.strip() for blanks
RECURSIVE lstrip(_)
lstrip(s) ==
    IF Len(s) > 0 /\ SubSeq(s, 1, 1) = " " THEN lstrip(SubSeq(s, 2, Len(s))) ELSE s

RECURSIVE rstrip(_)
rstrip(s) ==
    IF Len(s) > 0 /\ SubSeq(s, Len(s), Len(s)) = " "
    THEN rstrip(SubSeq(s, 1, Len(s) - 1))
    ELSE s

strip(s) == rstrip(lstrip(s))

UpperCase == "ABCDEFGHIJKLMNOPQRSTUVWXYZ"
LowerCase == "abcdefghijklmnopqrstuvwxyz"

\* the lower-case letter of every upper-case letter
LowerOf ==
    [c \in {SubSeq(UpperCase, i, i) : i \in 1..Len(UpperCase)} |->
        LET i == CHOOSE i \in 1..Len(UpperCase) : SubSeq(UpperCase, i, i) = c
        IN SubSeq(LowerCase, i, i)]

lower_char(c) == IF c \in DOMAIN LowerOf THEN LowerOf[c] ELSE c

\* str.lower()
RECURSIVE lower(_)
lower(s) ==
    IF Len(s) = 0 THEN s
    ELSE lower_char(SubSeq(s, 1, 1)) \o lower(SubSeq(s, 2, Len(s)))

\* str.startswith(prefix)
startswith(s, prefix) ==
    Len(s) >= Len(prefix) /\ SubSeq(s, 1, Len(prefix)) = prefix

\* shlex.split of a line without quotes or escapes: its words
RECURSIVE shlex_split(_)
shlex_split(s) ==
    LET t == lstrip(s)
        blanks == {i \in 1..Len(t) : SubSeq(t, i, i) = " "}
        end == IF blanks = {} THEN Len(t)
               ELSE (CHOOSE i \in blanks : \A j \in blanks : i <= j) - 1
    IN IF Len(t) = 0 THEN <<>>
       ELSE <<SubSeq(t, 1, end)>> \o shlex_split(SubSeq(t, end + 1, Len(t)))

\* ----------------------------------------------------------------- sessions
\* dict.get(key) on the session_metadata column (every row here has a dict)
metadata_get(session_metadata, key) ==
    IF key \in DOMAIN session_metadata THEN session_metadata[key] ELSE None

\* the uuid4 of the n-th session created
SessionId(n) == "s" \o ToString(n)

\* a row of the sessions table; updated_at is a count of the writes
SessionModel(id, name, session_metadata, is_active, updated_at) ==
    [id |-> id, name |-> name, session_metadata |-> session_metadata,
     is_active |-> is_active, updated_at |-> updated_at]

\* the columns of SessionModel that are nullable=False and written by an update
NotNullColumns == {"name", "is_active"}

\* the attributes of the pydantic Session that the repository returns
SessionAttributes ==
    {"id", "name", "description", "created_at", "updated_at", "is_active",
     "llm_provider", "llm_model", "system_prompt", "session_metadata",
     "message_count", "context_count"}

\* the keyword parameters of SessionService.add_message
AddMessageParameters ==
    {"role", "content", "session_id", "token_count", "model_used",
     "response_time", "metadata"}

\* datetime.utcnow() of a write: later than every updated_at in the table
utcnow(table) ==
    IF table = <<>> THEN 1
    ELSE 1 + (CHOOSE n \in {table[i].updated_at : i \in 1..Len(table)} :
                 \A i \in 1..Len(table) : table[i].updated_at <= n)

\* SessionRepository.create_session: the table with the new row
create_session(table, name, session_metadata) ==
    Append(table, SessionModel(SessionId(Len(table) + 1), name, session_metadata, TRUE,
                                utcnow(table)))

\* SessionRepository.get_session: whether the query finds a row, and the row
has_session(table, session_id) == \E i \in 1..Len(table) : table[i].id = session_id

get_session(table, session_id) ==
    table[CHOOSE i \in 1..Len(table) : table[i].id = session_id]

\* the fields of SessionUpdate
SessionUpdateFields ==
    {"name", "description", "llm_provider", "llm_model", "system_prompt",
     "session_metadata", "is_active"}

\* SessionService.update_session builds SessionUpdate with every field given
\* by keyword, so exclude_unset drops none of them: update_data has the values
\* the caller passed and None for each field the caller left out
SessionUpdate(passed) ==
    [passed |-> passed, none |-> SessionUpdateFields \ DOMAIN passed]

\* the row after setattr of the passed values (the columns that are not
\* modelled aside)
updated_row(row, passed, now) ==
    SessionModel(row.id,
                 IF "name" \in DOMAIN passed THEN passed.name ELSE row.name,
                 IF "session_metadata" \in DOMAIN passed THEN passed.session_metadata
                 ELSE row.session_metadata,
                 IF "is_active" \in DOMAIN passed THEN passed.is_active
                 ELSE row.is_active,
                 now)

\* SessionRepository.update_session: every field of update_data is set on the
\* row, None included, and the commit raises IntegrityError when a
\* nullable=False column is None (the service then rolls back and raises it
\* on); otherwise the row has the passed values
update_session(table, session_id, update_data) ==
    IF ~has_session(table, session_id)
    THEN [table |-> table, raised |-> "none"]
    ELSE IF NotNullColumns \cap update_data.none # {}
    THEN [table |-> table, raised |-> "IntegrityError"]
    ELSE [table |-> [i \in 1..Len(table) |->
                        IF table[i].id # session_id THEN table[i]
                        ELSE updated_row(table[i], update_data.passed, utcnow(table))],
          raised |-> "none"]

\* SessionRepository.delete_session: the soft delete
delete_session(table, session_id) ==
    [i \in 1..Len(table) |->
        IF table[i].id # session_id THEN table[i]
        ELSE [table[i] EXCEPT !.is_active = FALSE, !.updated_at = utcnow(table)]]

\* SessionRepository.hard_delete_session: the row is gone.  Its place in the
\* sequence is kept by a row that has no id, so that the sessions created
\* later get ids that were never used
hard_delete_session(table, session_id) ==
    [i \in 1..Len(table) |->
        IF table[i].id # session_id THEN table[i]
        ELSE [table[i] EXCEPT !.id = None, !.is_active = FALSE]]

\* SessionRepository.get_sessions(): the active rows, latest updated_at first
RECURSIVE by_updated_at_desc(_)
by_updated_at_desc(rows) ==
    IF rows = {} THEN <<>>
    ELSE LET first == CHOOSE r \in rows : \A o \in rows : o.updated_at <= r.updated_at
         IN <<first>> \o by_updated_at_desc(rows \ {first})

get_sessions(table) ==
    by_updated_at_desc({table[i] : i \in {j \in 1..Len(table) : table[j].is_active}})

\* ----------------------------------------------------------------- the REPL
\* what handle_input did: the branch it took (op), what it returned, the error
\* it showed (None: none), the text it handed to LLMManager.chat (None: none)
\* and the session /load, /current or /history showed (None: none)
ReplOutcome(op, returned, error, handed, refers) ==
    [op |-> op, returned |-> returned, error |-> error, handed |-> handed,
     refers |-> refers]

NoReplOutcome == ReplOutcome(None, TRUE, None, None, None)

ReplInit ==
    /\ session_active = TRUE
    /\ command_count = 0
    /\ current_session_id = None
    /\ service_current_session_id = None
    /\ db_sessions = <<>>
    /\ replLast = NoReplOutcome

ExitTokens == {"exit", "quit", "bye", "q"}

\* what the user answers to confirm("Are you sure you want to exit?")
Confirms == {"yes", "no", "KeyboardInterrupt"}

\* the name cmd_new_session and cmd_save_session make up from the time when
\* they are given none, and the one _ensure_current_session makes up
GeneratedName == "session_now"
AutoName == "auto_now"

\* the keywords process_ai_message passes to SessionService.add_message
AiMessageKeywords == {"session_id", "role", "content", "message_metadata"}

\* SessionService.add_message as process_ai_message calls it: a keyword that
\* is no parameter raises TypeError before anything is done; otherwise
\* MessageRepository.add_message writes the session's updated_at, and awaiting
\* the Message it returns raises TypeError
service_add_message(table, session_id, keywords) ==
    IF ~(keywords \subseteq AddMessageParameters)
    THEN [table |-> table, raised |-> "TypeError"]
    ELSE [table |-> [i \in 1..Len(table) |->
                        IF table[i].id # session_id THEN table[i]
                        ELSE [table[i] EXCEPT !.updated_at = utcnow(table)]],
          raised |-> "TypeError"]

\* _ensure_current_session without a current session: create_session stores
\* the row and makes it the service's current session, then the id is read
\* from the attribute session_id of the Session it returned
ensure_current_session(table) ==
    LET created == create_session(table, AutoName, [auto_created |-> TRUE])
    IN IF "session_id" \in SessionAttributes
       THEN [table |-> created, service |-> created[Len(created)].id,
             current |-> created[Len(created)].id, raised |-> "none"]
       ELSE [table |-> created, service |-> created[Len(created)].id,
             current |-> None, raised |-> "AttributeError"]

\* the text of get_context_for_ai for the files of its loop
RECURSIVE digest_text(_)
digest_text(digest) ==
    IF digest = <<>> THEN "=== END CONTEXT ==="
    ELSE "File: " \o Head(digest).file \o " --- " \o digest_text(Tail(digest))

\* process_ai_message.  ts: the clock readings of get_context_for_ai;
\* backend: what the provider's client returns or raises.  Every exception of
\* the session steps ends the handler with an error shown; an exception of the
\* LLM steps becomes the response
process_ai_message(message, ts, backend) ==
    LET ensured ==
            IF current_session_id = None
            THEN ensure_current_session(db_sessions)
            ELSE [table |-> db_sessions, service |-> service_current_session_id,
                  current |-> current_session_id, raised |-> "none"]
        user_added ==
            IF ensured.raised = "none" /\ ensured.current # None
            THEN service_add_message(ensured.table, ensured.current, AiMessageKeywords)
            ELSE [table |-> ensured.table, raised |-> ensured.raised]
    IN /\ service_current_session_id' = ensured.service
       /\ current_session_id' = ensured.current
       /\ IF user_added.raised # "none"
          THEN /\ db_sessions' = user_added.table
               /\ replLast' = ReplOutcome("ai", TRUE, user_added.raised, None, None)
               /\ UNCHANGED <<convVars, storeVars>>
          ELSE LET full_message ==
                       IF context_items = <<>> THEN message
                       ELSE digest_text(context_for_ai(context_items, ts).digest)
                               \o "\n\nUser Message: " \o message
                   r == get_provider(None)
                   stored == ctx_add_message(messages, max_history,
                                             Message(USER, full_message))
                   assistant_added ==
                       IF ensured.current # None
                       THEN service_add_message(user_added.table, ensured.current,
                                                AiMessageKeywords)
                       ELSE [table |-> user_added.table, raised |-> "none"]
               IN /\ db_sessions' = assistant_added.table
                  /\ IF llms = {}
                     THEN /\ replLast' = ReplOutcome("ai", TRUE, assistant_added.raised,
                                                     None, None)
                          /\ UNCHANGED <<convVars, storeVars>>
                     ELSE /\ Len(ts) = Len(context_items)
                          /\ Monotonic(clock, ts)
                          /\ IF context_items = <<>>
                             THEN UNCHANGED <<context_items, clock>>
                             ELSE /\ context_items' = context_for_ai(context_items, ts).items
                                  /\ clock' = ts[Len(ts)]
                          /\ messages' =
                                IF r.raised # "none" THEN messages
                                ELSE IF backend \in Responses
                                THEN ctx_add_message(stored, max_history,
                                                     Message(ASSISTANT, backend))
                                ELSE stored
                          /\ replLast' = ReplOutcome("ai", TRUE, assistant_added.raised,
                                                     full_message, None)
                          /\ UNCHANGED <<max_history, system_prompt, llms,
                                         default_provider, calls, nInputs, pinClean,
                                         convLast>>
                          /\ UNCHANGED <<max_context_items, active_files, clockOK,
                                         storeLast>>

\* cmd_new_session
cmd_new_session(args) ==
    LET session_name == IF args = <<>> THEN GeneratedName ELSE args[1]
        created == create_session(db_sessions, session_name, [created_via |-> "command"])
    IN /\ db_sessions' = created
       /\ service_current_session_id' = created[Len(created)].id
       /\ current_session_id' = created[Len(created)].id
       /\ replLast' = ReplOutcome("/new", TRUE, None, None, None)

\* cmd_save_session: update_session is given the session_metadata alone
cmd_save_session(args) ==
    LET session_name == IF args = <<>> THEN GeneratedName ELSE args[1]
        updated == update_session(db_sessions, current_session_id,
                       SessionUpdate([session_metadata |->
                                         [name |-> session_name, saved_at |-> "now"]]))
    IN /\ IF current_session_id = None
          THEN /\ replLast' = ReplOutcome("/save", TRUE, "No active session to save",
                                          None, None)
               /\ UNCHANGED db_sessions
          ELSE /\ db_sessions' = updated.table
               /\ replLast' = ReplOutcome("/save", TRUE,
                                 IF updated.raised = "none" THEN None ELSE updated.raised,
                                 None, None)
       /\ UNCHANGED <<current_session_id, service_current_session_id>>

\* cmd_load_session: the first of get_sessions() whose metadata has the name
cmd_load_session(args) ==
    LET sessions == get_sessions(db_sessions)
        named == {i \in 1..Len(sessions) :
                     metadata_get(sessions[i].session_metadata, "name") = args[1]}
        target_session == sessions[CHOOSE i \in named : \A j \in named : i <= j]
    IN IF args = <<>>
       THEN /\ replLast' = ReplOutcome("/load", TRUE, "Please provide a session name",
                                       None, None)
            /\ UNCHANGED <<current_session_id, service_current_session_id, db_sessions>>
       ELSE IF named = {}
       THEN /\ replLast' = ReplOutcome("/load", TRUE, "Session not found", None, None)
            /\ UNCHANGED <<current_session_id, service_current_session_id, db_sessions>>
       ELSE \* set_current_session: the rows of get_sessions() exist and are active
            /\ service_current_session_id' = target_session.id
            /\ current_session_id' = target_session.id
            /\ replLast' = ReplOutcome("/load", TRUE, None, None, target_session.id)
            /\ UNCHANGED db_sessions

\* cmd_current_session and cmd_conversation_history show the session of
\* current_session_id
cmd_current_session(command) ==
    /\ replLast' =
          IF current_session_id = None
          THEN ReplOutcome(command, TRUE, "No active session", None, None)
          ELSE IF command = "/current" /\ ~has_session(db_sessions, current_session_id)
          THEN ReplOutcome(command, TRUE, "Current session not found", None, None)
          ELSE ReplOutcome(command, TRUE, None, None, current_session_id)
    /\ UNCHANGED <<current_session_id, service_current_session_id, db_sessions>>

\* process_command: the first word, in lower case, selects the handler
process_command(command_line) ==
    LET parts == shlex_split(command_line)
        command == lower(parts[1])
        args == Tail(parts)
    IN /\ CASE command = "/new" -> cmd_new_session(args)
            [] command = "/save" -> cmd_save_session(args)
            [] command = "/load" -> cmd_load_session(args)
            [] command \in {"/current", "/history"} -> cmd_current_session(command)
            [] OTHER ->
                 /\ replLast' = ReplOutcome(command, TRUE, "Unknown command", None, None)
                 /\ UNCHANGED <<current_session_id, service_current_session_id,
                                db_sessions>>
       /\ UNCHANGED <<convVars, storeVars>>

\* (variant: no confirmation is asked for)
handle_exit_unconfirmed(answer) ==
    /\ replLast' = ReplOutcome("exit", FALSE, None, None, None)
    /\ session_active' = FALSE
    /\ UNCHANGED <<command_count, current_session_id, service_current_session_id,
                   db_sessions>>
    /\ UNCHANGED <<convVars, storeVars>>

\* handle_exit.  The confirmation is asked for when a command was executed;
\* the autosave that follows changes nothing (CommandProcessor has no
\* save_session, and the exception is caught)
handle_exit(answer) ==
    /\ IF command_count > 0 /\ answer = "no"
       THEN /\ replLast' = ReplOutcome("exit", TRUE, None, None, None)
            /\ UNCHANGED session_active
       ELSE /\ replLast' = ReplOutcome("exit", FALSE, None, None, None)
            /\ session_active' = FALSE
    /\ UNCHANGED <<command_count, current_session_id, service_current_session_id,
                   db_sessions>>
    /\ UNCHANGED <<convVars, storeVars>>

\* handle_input, and the step of run() that follows it: the loop is left when
\* it returned False.  user_input: the line the prompt returned; answer: the
\* user's answer to the exit confirmation
handle_input(user_input, answer, ts, backend) ==
    /\ session_active
    /\ LET line == strip(user_input)
       IN IF Len(line) = 0
          THEN /\ replLast' = ReplOutcome("empty", TRUE, None, None, None)
               /\ UNCHANGED <<session_active, command_count, current_session_id,
                              service_current_session_id, db_sessions>>
               /\ UNCHANGED <<convVars, storeVars>>
          ELSE IF lower(line) \in ExitTokens
          THEN handle_exit(answer)
          ELSE /\ command_count < MaxCommands
               /\ Len(db_sessions) < MaxSessions
               /\ command_count' = command_count + 1
               /\ UNCHANGED session_active
               /\ IF startswith(line, "/")
                  THEN process_command(line)
                  ELSE process_ai_message(line, ts, backend)

\* ------------------------------------------------------ SessionService
\* The operations of SessionService called directly.  replLast records the
\* operation, what it returned (for update_session: whether it returned) and
\* the exception it raised.
SessionIds == {SessionId(n) : n \in 1..MaxSessions}

\* the keyword arguments update_session is called with
UpdateArguments(choice) ==
    CASE choice = "rename" -> [name |-> "b"]
      [] choice = "deactivate" -> [is_active |-> FALSE]
      [] choice = "rename_deactivate" -> [name |-> "b", is_active |-> FALSE]
      [] OTHER -> [name |-> "b", is_active |-> TRUE]

UpdateChoices == {"rename", "deactivate", "rename_deactivate", "rename_activate"}

service_create_session(set_as_current) ==
    /\ Len(db_sessions) < MaxSessions
    /\ utcnow(db_sessions) <= MaxWrites
    /\ db_sessions' = create_session(db_sessions, "a", [created_via |-> "service"])
    /\ service_current_session_id' =
          IF set_as_current THEN db_sessions'[Len(db_sessions')].id
          ELSE service_current_session_id
    /\ replLast' = ReplOutcome("create_session", TRUE, None, None, None)
    /\ UNCHANGED <<session_active, command_count, current_session_id>>
    /\ UNCHANGED <<convVars, storeVars>>

service_set_current_session(session_id) ==
    /\ IF has_session(db_sessions, session_id)
          /\ get_session(db_sessions, session_id).is_active
       THEN /\ service_current_session_id' = session_id
            /\ replLast' = ReplOutcome("set_current_session", TRUE, None, None, None)
       ELSE /\ replLast' = ReplOutcome("set_current_session", FALSE, None, None, None)
            /\ UNCHANGED service_current_session_id
    /\ UNCHANGED <<session_active, command_count, current_session_id, db_sessions>>
    /\ UNCHANGED <<convVars, storeVars>>

service_update_session(session_id, choice) ==
    /\ utcnow(db_sessions) <= MaxWrites
    /\ LET updated == update_session(db_sessions, session_id,
                                      SessionUpdate(UpdateArguments(choice)))
       IN /\ db_sessions' = updated.table
          /\ replLast' = ReplOutcome("update_session", updated.raised = "none",
                                     IF updated.raised = "none" THEN None
                                     ELSE updated.raised,
                                     None, None)
    /\ UNCHANGED <<session_active, command_count, current_session_id,
                   service_current_session_id>>
    /\ UNCHANGED <<convVars, storeVars>>

service_delete_session(session_id, hard_delete) ==
    /\ utcnow(db_sessions) <= MaxWrites
    /\ LET success == has_session(db_sessions, session_id)
       IN /\ db_sessions' = IF hard_delete
                            THEN hard_delete_session(db_sessions, session_id)
                            ELSE delete_session(db_sessions, session_id)
          /\ service_current_session_id' =
                IF success /\ service_current_session_id = session_id THEN None
                ELSE service_current_session_id
          /\ replLast' = ReplOutcome("delete_session", success, None, None, None)
    /\ UNCHANGED <<session_active, command_count, current_session_id>>
    /\ UNCHANGED <<convVars, storeVars>>

service_clear_current_session ==
    /\ service_current_session_id' = None
    /\ replLast' = ReplOutcome("clear_current_session", TRUE, None, None, None)
    /\ UNCHANGED <<session_active, command_count, current_session_id, db_sessions>>
    /\ UNCHANGED <<convVars, storeVars>>

\* run(): Ctrl+C at the prompt.  handle_exit runs as for an exit token and
\* returns True when the user declined and False when it decided to exit;
\* run() takes what it returned for should_exit, goes on with the loop when
\* that is False and leaves the loop when it is True
keyboard_interrupt(answer) ==
    /\ session_active
    /\ LET should_exit == command_count > 0 /\ answer = "no"
       IN /\ replLast' = ReplOutcome("KeyboardInterrupt", should_exit, None, None, None)
          /\ session_active' = IF should_exit THEN FALSE ELSE session_active
    /\ UNCHANGED <<command_count, current_session_id, service_current_session_id,
                   db_sessions>>
    /\ UNCHANGED <<convVars, storeVars>>

\* the lines the user enters
Lines ==
    {"", "  ", "q", " Quit ", "EXIT", "bye ", "quit now", "hello",
     "/new", "/new s", "/save a", "/SAVE b", "/load a", "/load b", "/load",
     "/current", "/history", "/nope"}

\* CommandProcessor._initialize_llm_manager: the providers that have an API
\* key are registered, config.default_llm is made the default when it is one
\* of them, and the system prompt is set
ReplConvInit ==
    \E keys \in SUBSET LLMProvider, default_llm \in LLMProvider :
        /\ llms = keys
        /\ default_provider = IF default_llm \in keys THEN default_llm
                              ELSE IF CLAUDE \in keys THEN CLAUDE
                              ELSE IF GEMINI \in keys THEN GEMINI
                              ELSE None
        /\ messages = ctx_set_system_prompt(<<>>, "p")
        /\ system_prompt = "p"
        /\ max_history = DefaultMaxHistory
        /\ calls = {}
        /\ nInputs = 0
        /\ pinClean = TRUE
        /\ convLast = NoOutcome

\* ------------------------------------------------------------ specification
Init == ConvInit /\ StoreInit(DefaultMaxContextItems) /\ ReplInit

\* ConversationContext through LLMManager's synchronous operations
CtxNext ==
    \/ \E prompt \in Prompts : set_system_prompt(prompt)
    \/ \E role \in MessageRole : add_message(role)
    \/ clear_conversation
    \/ \E n \in 1..MaxHistory : set_max_history(n)
    \/ \E data \in ImportLists : import_conversation(data)

SpecCtx == Init /\ [][CtxNext]_vars

\* The caller awaits an operation before it issues the next one (the REPL,
\* the only caller, does), so an operation starts only when no coroutine is
\* suspended.
Idle == calls = {}

\* LLMManager: provider registry, conversation and generate
MgrNext ==
    \/ \E prompt \in Prompts : Idle /\ set_system_prompt(prompt)
    \/ \E role \in MessageRole : Idle /\ add_message(role)
    \/ Idle /\ clear_conversation
    \/ \E n \in 1..MaxHistory : Idle /\ set_max_history(n)
    \/ \E provider \in LLMProvider, created \in BOOLEAN : Idle /\ add_provider(provider, created)
    \/ \E provider \in LLMProvider : Idle /\ set_default_provider(provider)
    \/ \E provider \in LLMProvider \cup {None}, add_to_history \in BOOLEAN :
          Idle /\ generate_call(provider, add_to_history)
    \/ \E c \in calls, response \in Responses : generate_return(c, response)
    \/ \E c \in calls, error \in LLMErrorKinds : generate_raise(c, error)

Spec == Init /\ [][MgrNext]_vars

\* LLMManager: conversation and generate_stream.  (One provider is registered
\* here: the resolution of the provider is the same code as in generate, and
\* Spec runs it over both providers.)
StreamNext ==
    \/ \E prompt \in Prompts : Idle /\ set_system_prompt(prompt)
    \/ \E role \in MessageRole : Idle /\ add_message(role)
    \/ Idle /\ clear_conversation
    \/ \E n \in 1..MaxHistory : Idle /\ set_max_history(n)
    \/ Idle /\ add_provider(CLAUDE, TRUE)
    \/ \E provider \in LLMProvider \cup {None}, add_to_history \in BOOLEAN :
          Idle /\ stream_call(provider, add_to_history)
    \/ \E c \in calls : stream_chunk(c)
    \/ \E c \in calls : stream_close(c)
    \/ \E c \in calls : stream_end(c)
    \/ \E c \in calls, error \in LLMErrorKinds : stream_raise(c, error)

SpecStream == Init /\ [][StreamNext]_vars

\* LLMManager: the registry and the three ways to ask a backend (generate,
\* chat, generate_stream), one call at a time
CallsNext ==
    \/ \E provider \in LLMProvider, created \in BOOLEAN : Idle /\ add_provider(provider, created)
    \/ \E provider \in LLMProvider : Idle /\ set_default_provider(provider)
    \/ \E provider \in LLMProvider \cup {None}, add_to_history \in BOOLEAN :
          Idle /\ generate_call(provider, add_to_history)
    \/ \E provider \in LLMProvider \cup {None} : Idle /\ chat_call(provider)
    \/ \E provider \in LLMProvider \cup {None}, add_to_history \in BOOLEAN :
          Idle /\ stream_call(provider, add_to_history)
    \/ \E c \in calls, response \in Responses : generate_return(c, response)
    \/ \E c \in calls, error \in LLMErrorKinds : generate_raise(c, error)
    \/ \E c \in calls : stream_chunk(c)
    \/ \E c \in calls : stream_close(c)
    \/ \E c \in calls : stream_end(c)
    \/ \E c \in calls, error \in LLMErrorKinds : stream_raise(c, error)

SpecCalls == Init /\ [][CallsNext]_vars

\* LLMManager.generate called by tasks of one event loop: a task runs until
\* its await of the backend, and nothing in the manager keeps a second task
\* from starting generate while the first is suspended there.
Replies == {"r", "s"}

TasksNext ==
    \/ \E provider \in LLMProvider, created \in BOOLEAN : add_provider(provider, created)
    \/ \E provider \in LLMProvider \cup {None}, add_to_history \in BOOLEAN :
          generate_call(provider, add_to_history)
    \/ \E c \in calls, response \in Replies : generate_return(c, response)
    \/ \E c \in calls, error \in LLMErrorKinds : generate_raise(c, error)

SpecTasks == Init /\ [][TasksNext]_vars

\* LLMManager.generate over the clients' HTTP exchanges
HttpNext ==
    \/ \E provider \in LLMProvider, created \in BOOLEAN : Idle /\ add_provider(provider, created)
    \/ \E provider \in LLMProvider \cup {None}, add_to_history \in BOOLEAN :
          Idle /\ generate_call(provider, add_to_history)
    \/ \E c \in calls, o \in HttpOutcomes, response \in Responses :
          generate_respond(c, o, response)

SpecHttp == Init /\ [][HttpNext]_vars

\* A long conversation: USER and ASSISTANT messages in turn, under the
\* max_history of a new manager or a larger one, with or without a system
\* prompt.
TurnRole(n) == IF n % 2 = 0 THEN USER ELSE ASSISTANT

LongNext ==
    \/ set_system_prompt("p")
    \/ \E n \in {DefaultMaxHistory, MaxLong} : set_max_history(n)
    \/ add_message_within(TurnRole(nInputs), MaxLong)

SpecLong == Init /\ [][LongNext]_vars

\* ContextManager, constructed with max_context_items in 1..MaxItems
StoreNext ==
    \/ \E file_path \in Paths, exists \in BOOLEAN, t \in Times :
          add_file(file_path, exists, t)
    \/ \E file_path \in Paths : remove_file(file_path)
    \/ \E ts \in [1..Len(context_items) -> Times] : get_context_for_ai(ts)
    \/ get_context_stats
    \/ clear_context
    \/ \E data \in ImportData, missing \in {{}, {"x.md"}} :
          import_context(data, missing)
    \/ \E t \in Times : clock_set_back(t)

InitStore == ConvInit /\ ReplInit /\ \E k \in 1..MaxItems : StoreInit(k)

SpecStore == InitStore /\ [][StoreNext]_vars

\* the REPL: the lines of one run of TodoistREPL.run()
ReplNext ==
    \E user_input \in Lines, answer \in Confirms,
       ts \in [1..Len(context_items) -> Times],
       backend \in Responses \cup LLMErrorKinds :
          handle_input(user_input, answer, ts, backend)

InitRepl == ReplConvInit /\ StoreInit(DefaultMaxContextItems) /\ ReplInit

SpecRepl == InitRepl /\ [][ReplNext]_vars

\* the REPL with Ctrl+C at the prompt
RunNext ==
    \/ \E user_input \in Lines, answer \in Confirms,
          ts \in [1..Len(context_items) -> Times],
          backend \in Responses \cup LLMErrorKinds :
             handle_input(user_input, answer, ts, backend)
    \/ \E answer \in Confirms : keyboard_interrupt(answer)

SpecRun == InitRepl /\ [][RunNext]_vars

\* SessionService: the sessions and the current session
SessionsNext ==
    \/ \E set_as_current \in BOOLEAN : service_create_session(set_as_current)
    \/ \E session_id \in SessionIds : service_set_current_session(session_id)
    \/ \E session_id \in SessionIds, choice \in UpdateChoices :
          service_update_session(session_id, choice)
    \/ \E session_id \in SessionIds, hard_delete \in BOOLEAN :
          service_delete_session(session_id, hard_delete)
    \/ service_clear_current_session

SpecSessions == Init /\ [][SessionsNext]_vars

\* ------------------------------------------------------------------ claims
SystemMessages(msgs) == SelectSeq(msgs, IsSystem)
OtherMessages(msgs) == SelectSeq(msgs, NotSystem)
Pinned == system_prompt # None /\ system_prompt # ""

\* the last k elements of s, none when k <= 0
LastN(s, k) ==
    IF k <= 0 THEN <<>>
    ELSE IF k >= Len(s) THEN s
    ELSE SubSeq(s, Len(s) - k + 1, Len(s))

\* C1: after every add_message call the history holds at most max_history
\* messages, and when a system prompt is pinned its first message is the
\* SYSTEM message.  (Stated for the USER and ASSISTANT messages; a SYSTEM
\* message added through add_message exceeds the bound as well.)
C1_HistoryBound ==
    [][\A role \in {USER, ASSISTANT} :
          add_message(role) =>
              /\ Len(messages') <= max_history
              /\ Pinned => (messages' # <<>> /\ messages'[1].role = SYSTEM)]_vars

\* C2: in every state, a non-empty system_prompt is the content of a SYSTEM
\* message at the head of the history, and the history never holds more than
\* one SYSTEM message.
C2_SystemInvariant ==
    /\ Pinned => (messages # <<>> /\ messages[1] = Message(SYSTEM, system_prompt))
    /\ Len(SystemMessages(messages)) <= 1

\* C3: an add_message that pushes the list past max_history leaves the SYSTEM
\* messages followed by the most recent (max_history - number of SYSTEM
\* messages) other messages, in their order; with max_history = 3 and no
\* system prompt, adding a, b, c, d leaves b, c, d.
C3_Scenario ==
    import_loop(<<>>, 3, <<Message(USER, "a"), Message(ASSISTANT, "b"),
                           Message(USER, "c"), Message(ASSISTANT, "d")>>).messages
        = <<Message(ASSISTANT, "b"), Message(USER, "c"), Message(ASSISTANT, "d")>>

\* C3 (truncation result): every add_message that makes the list longer than
\* max_history leaves exactly the SYSTEM messages followed by the last
\* (max_history - number of SYSTEM messages) other messages.
C3_TruncationResult ==
    [][\A role \in MessageRole :
          (add_message(role) /\ Len(messages) + 1 > max_history) =>
              LET appended == Append(messages, Message(role, Content(nInputs')))
                  sys == SystemMessages(appended)
              IN /\ messages' = sys \o LastN(OtherMessages(appended), max_history - Len(sys))
                 /\ C3_Scenario]_vars

\* C4: after set_system_prompt followed only by USER / ASSISTANT messages the
\* history holds at most one SYSTEM message, its content is the argument of
\* the most recent set_system_prompt, and there is none when that argument
\* was the empty string.
C4_SystemPin ==
    pinClean =>
        LET sys == SystemMessages(messages) IN
        /\ Len(sys) <= 1
        /\ \A i \in 1..Len(sys) : sys[i].content = system_prompt
        /\ system_prompt = "" => sys = <<>>

\* a second prompt replaced the first and a truncation dropped a message
C4_Witness ==
    /\ pinClean /\ system_prompt = "q"
    /\ messages # <<>> /\ messages[1] = Message(SYSTEM, "q")
    /\ Len(messages) = max_history /\ nInputs >= max_history
    /\ messages[Len(messages)].content = Content(nInputs)

\* C5: in every state the store's operations reach, the store holds at most
\* max_context_items items.
C5_StoreBound == Len(context_items) <= max_context_items

\* C6: with max_context_items items stored, a successful add_file of a path
\* that is not stored leaves max_context_items items: exactly one of the
\* stored items and the new one is removed, one whose last_accessed is the
\* smallest of them all, and the others stay as they were.
C6_EvictionCorrect ==
    [][LET file_path == storeLast'.added
           t == clock'
           all == Append(context_items, ContextItem(file_path, t, 0))
       IN (/\ storeLast'.op = "add_file" /\ file_path \in MdPaths
           /\ Len(context_items) = max_context_items
           /\ file_path \notin Keys(context_items)) =>
              \/ /\ Len(context_items') = max_context_items
                 /\ \E i \in 1..Len(all) :
                       /\ \A j \in 1..Len(all) : all[i].last_accessed <= all[j].last_accessed
                       /\ context_items' = dict_without(all, {all[i].file_path})
                       /\ storeLast'.evicted = <<all[i].file_path>>
              \/ ~add_file(file_path, TRUE, t)]_vars

\* a full store of two items took a third file and dropped one that was not
\* the first in the store: the item read last had the older time
C6_Witness ==
    /\ storeLast.op = "add_file" /\ storeLast.result
    /\ Len(storeLast.evicted) = 1
    /\ max_context_items = 2 /\ Len(context_items) = 2
    /\ context_items[2].access_count = 0
    /\ context_items[1].access_count = 1
    /\ context_items[1].last_accessed < context_items[2].last_accessed

\* the file just added is the one the eviction removed: the clock had been
\* set back, and the new item's time was the smallest
C6_WitnessNoImmunity ==
    /\ storeLast.op = "add_file" /\ storeLast.result
    /\ storeLast.evicted = <<storeLast.added>>
    /\ Len(context_items) = max_context_items /\ max_context_items = 2
    /\ storeLast.added \notin Keys(context_items)

C7_WitnessNoProvider ==
    /\ convLast.op = "generate" /\ convLast.raised = "ValueError"
    /\ llms = {} /\ default_provider = None

\* C8: when the backend raises during generate(content, add_to_history=True)
\* the caller gets the backend's error, the call is over (the backend is not
\* asked again), and the history is what the call's add_message left: no
\* ASSISTANT message is appended and the USER message is not taken back.
C8_FailedGenerate ==
    [][\A c \in calls, error \in LLMErrorKinds :
          (c.add_to_history /\ generate_raise(c, error)) =>
              /\ convLast' = Last("generate", TRUE, error)
              /\ calls' = calls \ {c}
              /\ messages' = messages
              /\ messages' = c.request
              /\ Len(SystemMessages(messages)) < max_history =>
                    messages'[Len(messages')] = Message(USER, c.content)]_vars

\* generate has just raised RateLimitError, and the history ends with the
\* USER message of that call behind an earlier exchange
C8_Witness ==
    /\ convLast = Last("generate", TRUE, "RateLimitError")
    /\ calls = {}
    /\ Len(messages) >= 3
    /\ messages[Len(messages)] = Message(USER, Content(nInputs))
    /\ messages[Len(messages) - 1].role = ASSISTANT

\* the concatenation of the strings of a sequence, in order
RECURSIVE Concat(_)
Concat(chunks) ==
    IF chunks = <<>> THEN "" ELSE Head(chunks) \o Concat(Tail(chunks))

\* C9: a generate_stream(content, add_to_history=True) that runs to its end
\* adds one ASSISTANT message whose content is the concatenation of the
\* chunks it yielded, in order; when the consumer stops or the backend raises
\* the history stays as it is, with the USER message and without an
\* ASSISTANT message.
C9_StreamingCommit ==
    [][\A c \in calls :
          c.add_to_history =>
              /\ stream_end(c) =>
                    LET reply == Message(ASSISTANT, Concat(c.yielded)) IN
                    /\ messages' = ctx_add_message(messages, max_history, reply)
                    /\ Len(messages) < max_history => messages' = Append(messages, reply)
              /\ (stream_close(c) \/ \E error \in LLMErrorKinds : stream_raise(c, error)) =>
                    /\ messages' = messages
                    /\ messages' = c.request
                    /\ Len(SystemMessages(messages)) < max_history =>
                          messages'[Len(messages')] = Message(USER, c.content)]_vars

\* a stream of two chunks ran to its end: the history ends with the USER
\* message and the ASSISTANT message that holds both chunks
C9_Witness ==
    /\ convLast = Last("generate_stream", TRUE, "none")
    /\ calls = {}
    /\ Len(messages) >= 2
    /\ messages[Len(messages)] = Message(ASSISTANT, Chunk(1) \o Chunk(2))
    /\ messages[Len(messages) - 1] = Message(USER, Content(nInputs))

\* the consumer stopped after the first chunk: the history ends with the
\* USER message
C9_WitnessAborted ==
    /\ convLast = Last("generate_stream", TRUE, "GeneratorExit")
    /\ calls = {}
    /\ messages # <<>>
    /\ messages[Len(messages)] = Message(USER, Content(nInputs))

\* C10: generate(content, add_to_history=False) leaves the history as it was,
\* at the call, when the backend returns and when it raises, and the backend
\* is given the history followed by one USER message with content.
C10_OneOff ==
    [][/\ \A provider \in LLMProvider \cup {None} :
             generate_call(provider, FALSE) =>
                 /\ messages' = messages
                 /\ \A c \in calls' \ calls :
                       c.request = messages \o <<Message(USER, c.content)>>
       /\ \A c \in calls :
             (/\ ~c.add_to_history
              /\ \/ \E response \in Responses : generate_return(c, response)
                 \/ \E error \in LLMErrorKinds : generate_raise(c, error)) =>
                 /\ messages' = messages
                 /\ c.request = messages \o <<Message(USER, c.content)>>]_vars

\* a one-off generate has just returned over a history of an earlier exchange
C10_Witness ==
    /\ convLast = Last("generate", FALSE, "none")
    /\ calls = {}
    /\ Len(messages) >= 2
    /\ messages[Len(messages)].role = ASSISTANT
    /\ \A i \in 1..Len(messages) : messages[i].content # Content(nInputs)

\* C11: one get_context_for_ai adds exactly 1 to the access_count of every
\* item of the store and sets its last_accessed to a reading of the clock
\* taken during the call, and keeps the items and their order;
\* get_context_stats changes nothing in the store and reports, as
\* most_accessed, the largest access_count the store holds.
C11_AccessBump ==
    [][/\ storeLast'.op = "get_context_for_ai" =>
          \/ /\ Len(context_items') = Len(context_items)
             /\ \A i \in 1..Len(context_items) :
                   /\ context_items'[i].file_path = context_items[i].file_path
                   /\ context_items'[i].access_count = context_items[i].access_count + 1
                   /\ clock <= context_items'[i].last_accessed
                   /\ context_items'[i].last_accessed <= clock'
          \/ ~\E ts \in [1..Len(context_items) -> Times] : get_context_for_ai(ts)
       /\ (storeLast'.op = "get_context_stats" /\ get_context_stats) =>
             /\ context_items' = context_items /\ active_files' = active_files
             /\ max_context_items' = max_context_items
             /\ storeLast'.stats.total_files = Len(context_items)
             /\ context_items # <<>> =>
                   /\ \A i \in 1..Len(context_items) :
                         context_items[i].access_count <= storeLast'.stats.most_accessed.count
                   /\ \E i \in 1..Len(context_items) :
                         /\ context_items[i].access_count = storeLast'.stats.most_accessed.count
                         /\ context_items[i].file_path = storeLast'.stats.most_accessed.file]_vars

\* get_context_stats has just answered after a get_context_for_ai over two
\* items: both were counted once, at a time after they were added
C11_Witness ==
    /\ storeLast.op = "get_context_stats"
    /\ Len(context_items) = 2
    /\ storeLast.stats.most_accessed.count = 1
    /\ \A i \in 1..2 : context_items[i].access_count = 1 /\ context_items[i].last_accessed > 0

\* the store after add x, add y, get_context_for_ai with max_context_items = 2
\* and a clock that was never set back: x and y in this order, both read once
\* by the call that completed last
C12_AfterRead ==
    /\ max_context_items = 2 /\ clockOK
    /\ storeLast.op = "get_context_for_ai"
    /\ Len(context_items) = 2
    /\ context_items[1].file_path = "x.md" /\ context_items[2].file_path = "y.md"
    /\ context_items[1].access_count = 1 /\ context_items[2].access_count = 1

\* C12: with max_context_items = 2, after add x, add y, get_context_for_ai,
\* x and y have one and the same last_accessed, and add z leaves exactly two
\* items, z among them, and removes x, the item inserted first.
C12_EvictionAfterRead ==
    [][\A t \in Times :
          (C12_AfterRead /\ storeLast'.added = "z.md" /\ add_file("z.md", TRUE, t)) =>
              /\ context_items[1].last_accessed = context_items[2].last_accessed
              /\ Len(context_items') = 2
              /\ "z.md" \in Keys(context_items')
              /\ storeLast'.evicted = <<"x.md">>]_vars

\* import_conversation(data) on a new LLMManager: the messages it ends with
imported_into_fresh(data) == import_loop(<<>>, DefaultMaxHistory, data).messages

\* C13 as the specification words it: for every conversation the manager's
\* operations reach, importing its export into a new LLMManager gives the
\* same sequence of (role, content) pairs.
C13_RoundTrip ==
    imported_into_fresh(export_conversation(messages)) = messages

\* C13: for every conversation of at most 50 messages (the max_history of a
\* new LLMManager), importing its export into a new LLMManager gives the same
\* sequence of (role, content) pairs.
C13_RoundTripWithin ==
    Len(messages) <= DefaultMaxHistory =>
        imported_into_fresh(export_conversation(messages)) = messages

\* a conversation of 50 messages, the SYSTEM message first, whose earliest
\* message was dropped by a truncation
C13_Witness ==
    /\ Len(messages) = DefaultMaxHistory
    /\ messages[1] = Message(SYSTEM, "p")
    /\ messages[2].content # Content(1)
    /\ imported_into_fresh(export_conversation(messages)) = messages

\* C14: in every state add_provider and set_default_provider reach, failing
\* calls included, the default provider is unset or is a registered provider.
C14_RegistryInvariant ==
    default_provider = None \/ default_provider \in llms

\* a set_default_provider that raised for an unregistered provider while
\* another provider was registered and the default
C14_Witness ==
    /\ convLast = Last("set_default_provider", FALSE, "ValueError")
    /\ llms # {} /\ llms # LLMProvider
    /\ default_provider \in llms

\* a registration that raised before any provider was registered
C14_WitnessFailedAdd ==
    /\ convLast = Last("add_provider", FALSE, "ValueError")
    /\ llms = {}
    /\ default_provider = None

\* C15: the first provider registered becomes the default; a later
\* registration, of a new provider or of one already registered, leaves the
\* default alone; and a generate without a provider argument goes to the
\* client of the default, so to B after set_default_provider(B).
C15_FirstRegisteredWins ==
    [][/\ \A provider \in LLMProvider :
            /\ (llms = {} /\ add_provider(provider, TRUE))
                  => default_provider' = provider
            /\ (llms # {} /\ add_provider(provider, TRUE))
                  => default_provider' = default_provider
       /\ \A provider \in LLMProvider :
            (provider \in llms /\ set_default_provider(provider))
                  => default_provider' = provider
       /\ \A add_to_history \in BOOLEAN :
            (default_provider \in llms /\ generate_call(None, add_to_history))
                  => \E c \in calls' \ calls :
                        c.requested = None /\ c.provider = default_provider]_vars

\* both providers registered, the default moved to GEMINI, and a generate
\* without a provider argument in flight at GEMINI's client
C15_Witness ==
    /\ llms = LLMProvider
    /\ default_provider = GEMINI
    /\ \E c \in calls : c.requested = None /\ c.provider = GEMINI

\* C16: add_file for a path that does not exist or is not a markdown file
\* returns False (nothing is raised to the caller) and leaves the items, their
\* last_accessed and access_count, and active_files as they were.
C16_FailedAddNoOp ==
    [][storeLast'.op = "add_file" =>
       \/ /\ storeLast' = StoreOutcome("add_file", FALSE, <<>>, <<>>, None, None, None)
          /\ context_items' = context_items
          /\ active_files' = active_files
          /\ max_context_items' = max_context_items
       \/ ~\E file_path \in Paths, exists \in BOOLEAN :
              /\ ~exists \/ file_path \notin MdPaths
              /\ add_file(file_path, exists, clock)]_vars

\* a failed add_file on a store that holds an item already read, for a path
\* that is not stored
C16_Witness ==
    /\ storeLast = StoreOutcome("add_file", FALSE, <<>>, <<>>, None, None, None)
    /\ context_items # <<>>
    /\ \E i \in 1..Len(context_items) : context_items[i].access_count > 0
    /\ active_files = Keys(context_items)
    /\ active_files # MdPaths

\* C17: add_file for a path already stored, on a store within its bound, keeps
\* the number of items and the other items, evicts nothing, and leaves the
\* re-added item with added_at and last_accessed read from the clock during
\* the call (added_at first) and access_count 0.
C17_ReAddReplaces ==
    [][LET file_path == storeLast'.added
       IN (/\ storeLast'.op = "add_file" /\ file_path \in Keys(context_items)
           /\ Len(context_items) <= max_context_items) =>
              \/ /\ Len(context_items') = Len(context_items)
                 /\ storeLast'.evicted = <<>>
                 /\ \A i \in 1..Len(context_items) :
                       IF context_items[i].file_path # file_path
                       THEN context_items'[i] = context_items[i]
                       ELSE /\ context_items'[i] = ContextItem(file_path, clock', 0)
                            /\ clock <= storeLast'.added_at
                            /\ storeLast'.added_at <= clock'
              \/ ~add_file(file_path, TRUE, clock')]_vars

\* a stored item that had been read was added again at a later time, next to
\* another item that stayed
C17_Witness ==
    /\ storeLast.op = "add_file" /\ storeLast.added = "x.md"
    /\ storeLast.added_at = 2
    /\ Len(context_items) = 2
    /\ context_items[1] = ContextItem("x.md", 2, 0)
    /\ context_items[2].access_count = 1

\* the lines that are an exit token in some letter case between blanks
ExitLines == {user_input \in Lines : lower(strip(user_input)) \in ExitTokens}

\* the lines that are neither blank, nor an exit token, nor a slash command
FreeTextLines ==
    {user_input \in Lines \ ExitLines :
        Len(strip(user_input)) > 0 /\ ~startswith(strip(user_input), "/")}

\* the slash commands with one argument, as <<line, command, argument>>
CommandLines ==
    {<<user_input, lower(shlex_split(user_input)[1]), shlex_split(user_input)[2]>> :
        user_input \in {l \in Lines \ ExitLines :
                           startswith(strip(l), "/") /\ Len(shlex_split(l)) = 2}}

\* C18: a free-text line is handed to generate: with a provider registered and
\* a backend that returns, the line (after the digest of a store that is not
\* empty) is appended as a USER message and the response after it as an
\* ASSISTANT message, with or without a current session.
C18_FreeTextRouting ==
    [][\A user_input \in FreeTextLines, answer \in Confirms, backend \in Responses,
          ts \in [1..Len(context_items) -> Times] :
          (/\ llms # {}
           /\ handle_input(user_input, answer, ts, backend)) =>
              LET n == Len(messages')
              IN /\ n = Len(messages) + 2
                 /\ messages'[n] = Message(ASSISTANT, backend)
                 /\ messages'[n - 1].role = USER
                 /\ context_items = <<>> =>
                        messages'[n - 1].content = strip(user_input)
                 /\ replLast'.handed = messages'[n - 1].content]_vars

\* C19 as the specification words it: an exit token, in any letter case and
\* between blanks, makes handle_input return False and ends the loop of run,
\* whatever number of commands was executed before.
C19_ExitTokensEnd ==
    [][\A user_input \in ExitLines, answer \in Confirms :
          handle_input(user_input, answer, <<>>, "r") =>
              /\ replLast'.returned = FALSE
              /\ session_active' = FALSE]_vars

\* C19: an exit token, in any letter case and between blanks, makes
\* handle_input return False and ends the loop of run when no command was
\* executed before or the user does not decline the confirmation; when a
\* command was executed and the user declines, handle_input returns True and
\* the loop goes on.  Nothing else of the REPL changes, and after the loop has
\* ended no line is handled.
C19_ExitUnlessDeclined ==
    [][/\ \A user_input \in ExitLines, answer \in Confirms :
             handle_input(user_input, answer, <<>>, "r") =>
                 /\ replLast'.op = "exit"
                 /\ IF command_count > 0 /\ answer = "no"
                    THEN replLast'.returned = TRUE /\ session_active' = TRUE
                    ELSE replLast'.returned = FALSE /\ session_active' = FALSE
                 /\ UNCHANGED <<command_count, current_session_id, db_sessions, messages>>
       /\ session_active = FALSE => UNCHANGED vars]_vars

\* the user confirmed the exit after commands had been executed
C19_Witness ==
    /\ replLast = ReplOutcome("exit", FALSE, None, None, None)
    /\ command_count > 0
    /\ session_active = FALSE

\* the user declined the exit after commands had been executed
C19_WitnessDeclined ==
    /\ replLast = ReplOutcome("exit", TRUE, None, None, None)
    /\ command_count > 0
    /\ session_active = TRUE

\* the rows of get_sessions() that /load name selects from
SavedUnder(table, name) ==
    {i \in 1..Len(get_sessions(table)) :
        metadata_get(get_sessions(table)[i].session_metadata, "name") = name}

\* C20: /save NAME saves the current session under NAME, and /load NAME makes
\* a session saved under NAME the current session of the CommandProcessor and
\* of the SessionService, the one /current and /history then show.
C20_SaveLoadRoundTrip ==
    [][\A line \in CommandLines, answer \in Confirms :
          handle_input(line[1], answer, <<>>, "r") =>
             /\ (line[2] = "/save" /\ current_session_id # None) =>
                    /\ replLast'.error = None
                    /\ has_session(db_sessions', current_session_id)
                    /\ metadata_get(get_session(db_sessions', current_session_id)
                                       .session_metadata, "name") = line[3]
             /\ (line[2] = "/load" /\ SavedUnder(db_sessions, line[3]) # {}) =>
                    /\ replLast'.error = None
                    /\ current_session_id' = replLast'.refers
                    /\ service_current_session_id' = current_session_id'
                    /\ metadata_get(get_session(db_sessions, current_session_id')
                                       .session_metadata, "name") = line[3]]_vars

\* C21: set_system_prompt keeps the length bound: in a state where the history
\* holds at most max_history messages, after set_system_prompt(prompt) it
\* still holds at most max_history messages.
C21_PromptKeepsBound ==
    [][\A prompt \in Prompts :
          (Len(messages) <= max_history /\ set_system_prompt(prompt)) =>
              Len(messages') <= max_history]_vars

\* the three ways to ask a backend, as a call with its arguments
BackendCall(kind, provider, add_to_history) ==
    CASE kind = "generate" -> generate_call(provider, add_to_history)
      [] kind = "chat" -> add_to_history /\ chat_call(provider)
      [] kind = "generate_stream" -> stream_call(provider, add_to_history)

\* C22: generate, chat and generate_stream resolve the provider first and
\* never fall back: with an explicit id that is not registered they raise even
\* when a registered default exists, without an id and without a default they
\* raise, and whenever they raise so no backend is asked and the history is
\* as it was; an explicit id that is registered is the provider asked.
C22_NoFallback ==
    [][\A kind \in {"generate", "chat", "generate_stream"},
          provider \in LLMProvider \cup {None}, add_to_history \in BOOLEAN :
          BackendCall(kind, provider, add_to_history) =>
              IF \/ provider # None /\ provider \notin llms
                 \/ provider = None /\ default_provider = None
              THEN /\ convLast'.raised = "ValueError"
                   /\ convLast'.op = IF kind = "chat" THEN "generate" ELSE kind
                   /\ calls' = calls
                   /\ messages' = messages
              ELSE \A c \in calls' \ calls :
                      c.provider = IF provider # None THEN provider ELSE default_provider]_vars

\* generate_stream has just raised for an id that is not registered, on a
\* manager whose default is registered and whose history holds an exchange
C22_Witness ==
    /\ convLast = Last("generate_stream", TRUE, "ValueError")
    /\ llms = {CLAUDE} /\ default_provider = CLAUDE
    /\ calls = {}
    /\ Len(messages) = 2 /\ messages[2].role = ASSISTANT

\* C23: a generate(content, add_to_history=True) that resolves its provider
\* appends USER(content) before it asks the backend, and the backend is given
\* the history stored at that moment: USER(content) last, the SYSTEM message
\* first when there is one, at most max_history messages; when the backend
\* returns, ASSISTANT(response) is appended, and the history ends with
\* USER(content), ASSISTANT(response) when max_history leaves room for both.
C23_GenerateOrder ==
    [][/\ \A provider \in LLMProvider \cup {None} :
             generate_call(provider, TRUE) =>
                 \A c \in calls' \ calls :
                    /\ c.request = messages'
                    /\ c.request[Len(c.request)] = Message(USER, c.content)
                    /\ SystemMessages(c.request) # <<>> => c.request[1].role = SYSTEM
                    /\ Len(c.request) <= max_history
       /\ \A c \in calls, response \in Responses :
             (c.add_to_history /\ generate_return(c, response)) =>
                 /\ messages'[Len(messages')] = Message(ASSISTANT, response)
                 /\ max_history - Len(SystemMessages(messages)) >= 2 =>
                       /\ Len(messages') >= 2
                       /\ messages'[Len(messages') - 1] = Message(USER, c.content)]_vars

\* the place of a key in the store's insertion order
PlaceOf(items, key) == CHOOSE i \in 1..Len(items) : items[i].file_path = key

\* C24: get_context_for_ai lists every item once, most recently accessed
\* first by the last_accessed the items had before the call, items of equal
\* last_accessed in insertion order, with at most 5 key points (the first
\* ones) for each; on an empty store it returns the empty text and leaves the
\* store as it was.
C24_DigestOrder ==
    [][storeLast'.op = "get_context_for_ai" =>
          \/ LET d == storeLast'.digest
                 place == [i \in 1..Len(d) |-> PlaceOf(context_items, d[i].file)]
                 before == [i \in 1..Len(d) |-> context_items[place[i]].last_accessed]
             IN IF context_items = <<>>
                THEN /\ storeLast'.result = FALSE
                     /\ d = <<>>
                     /\ UNCHANGED <<context_items, active_files, max_context_items, clock>>
                ELSE /\ storeLast'.result = TRUE
                     /\ Len(d) = Len(context_items)
                     /\ {d[i].file : i \in 1..Len(d)} = Keys(context_items)
                     /\ \A i \in 1..(Len(d) - 1) :
                           \/ before[i] > before[i + 1]
                           \/ before[i] = before[i + 1] /\ place[i] < place[i + 1]
                     /\ \A i \in 1..Len(d) :
                           /\ Len(d[i].key_points) = Min(5, Len(key_points(d[i].file)))
                           /\ \A k \in 1..Len(d[i].key_points) :
                                 d[i].key_points[k] = key_points(d[i].file)[k]
          \/ ~\E ts \in [1..Len(context_items) -> Times] : get_context_for_ai(ts)]_vars

\* a digest of two items that begins with the item inserted second, which has
\* seven key points of which five are listed
C24_Witness ==
    /\ storeLast.op = "get_context_for_ai"
    /\ Len(storeLast.digest) = 2
    /\ Len(context_items) = 2
    /\ storeLast.digest[1].file = "z.md"
    /\ context_items[2].file_path = "z.md"
    /\ Len(storeLast.digest[1].key_points) = 5
    /\ Len(key_points("z.md")) = 7

\* C25: generate is not atomic.  A generate(add_to_history=True) that starts
\* while other calls are suspended at their await sends the history as it
\* stands, with the USER turn of every suspended call that stores its turn
\* and then its own USER turn; a reply is appended at the end of the history
\* when its call resumes, wherever the USER turn of that call is.
C25_NotAtomic ==
    [][/\ \A provider \in LLMProvider \cup {None} :
             (calls # {} /\ generate_call(provider, TRUE)) =>
                \A c2 \in calls' \ calls :
                   /\ c2.request = messages \o <<Message(USER, c2.content)>>
                   /\ messages' = c2.request
                   /\ \A c1 \in calls :
                         c1.add_to_history =>
                            \E i \in 1..Len(messages) :
                               c2.request[i] = Message(USER, c1.content)
       /\ \A c \in calls, response \in Replies :
             (c.add_to_history /\ generate_return(c, response)) =>
                messages' = messages \o <<Message(ASSISTANT, response)>>]_vars

\* two calls were suspended together and both have returned: the history is
\* USER a, USER b, then the two replies
C25_Witness ==
    /\ calls = {}
    /\ messages = <<Message(USER, "a"), Message(USER, "b"),
                    Message(ASSISTANT, "s"), Message(ASSISTANT, "r")>>

\* the kind the claim gives to a response that is not a 200
ErrorKindOf(status_code, names_model) ==
    IF status_code = 401 \/ status_code = 403 THEN "AuthenticationError"
    ELSE IF status_code = 429 THEN "RateLimitError"
    ELSE IF status_code = 404 /\ names_model THEN "ModelNotFoundError"
    ELSE "LLMError"

\* C26: with either client, a response that is not a 200 reaches the caller
\* of generate as AuthenticationError for 401 and 403, RateLimitError for
\* 429, ModelNotFoundError for a 404 about the model and LLMError otherwise,
\* the kind unchanged by the clients' catch-all handler.
C26_ErrorKinds ==
    [][\A c \in calls, o \in HttpOutcomes, response \in Responses :
          (o.transport = "ok" /\ o.status_code # 200
              /\ generate_respond(c, o, response)) =>
                 convLast'.raised = ErrorKindOf(o.status_code, o.names_model)]_vars

\* C27: on Ctrl+C at the prompt run() leaves the loop exactly when handle_exit
\* decides to exit (no command was executed, or the user confirms) and keeps
\* prompting exactly when the user declines.
C27_CtrlCLikeExit ==
    [][\A answer \in Confirms :
          keyboard_interrupt(answer) =>
             (session_active' = FALSE <=> ~(command_count > 0 /\ answer = "no"))]_vars

\* C28: with max_context_items >= 1 and a clock that was never set back, an
\* add_file that returns True leaves its item in the store: the eviction that
\* follows the insertion does not remove the item just added.
C28_AddVisible ==
    [][(storeLast'.op = "add_file" /\ storeLast'.result = TRUE
           /\ clockOK /\ max_context_items >= 1) =>
          \/ /\ storeLast'.added \in Keys(context_items')
             /\ storeLast'.added \notin SeqRange(storeLast'.evicted)
          \/ ~\E file_path \in MdPaths, t \in Times : add_file(file_path, TRUE, t)]_vars

\* the last k elements of a sequence (all of it when it has fewer)
LastOf(s, k) == SubSeq(s, Max(Len(s) - k, 0) + 1, Len(s))

\* C29: set_max_history(n) with n smaller than the length of the history
\* leaves the history as it is; the add_message that comes next on a history
\* longer than max_history brings it back to at most max_history messages,
\* when max_history is greater than the number of SYSTEM messages then in the
\* history: the SYSTEM messages are kept, followed by the most recent of the
\* other messages.
C29_LoweredBoundRepaired ==
    [][/\ \A n \in 1..MaxHistory :
             (n < Len(messages) /\ set_max_history(n)) =>
                (messages' = messages /\ max_history' = n)
       /\ \A role \in MessageRole :
             (Len(messages) > max_history /\ add_message(role)) =>
                LET appended == Append(messages, Message(role, Content(nInputs + 1)))
                    s == Len(SystemMessages(appended))
                IN max_history > s =>
                      /\ Len(messages') <= max_history
                      /\ messages' = SystemMessages(appended)
                                        \o LastOf(OtherMessages(appended), max_history - s)
                      /\ messages'[Len(messages')] = appended[Len(appended)]
                            \/ role = SYSTEM]_vars

\* max_history was lowered to 2 under a history of three messages, and the
\* third add_message has left the SYSTEM message and the newest message
C29_Witness ==
    /\ max_history = 2
    /\ nInputs = MaxInputs
    /\ messages = <<Message(SYSTEM, "p"), Message(USER, Content(MaxInputs))>>

\* C30: under create_session, set_current_session, update_session,
\* delete_session (soft or hard) and clear_current_session, the current
\* session of SessionService is unset or is the id of a row of the sessions
\* table whose is_active is true.
C30_CurrentIsLive ==
    \/ service_current_session_id = None
    \/ \E i \in 1..Len(db_sessions) :
          /\ db_sessions[i].id = service_current_session_id
          /\ db_sessions[i].is_active

====
